---- MODULE Spec2Model ----
(***************************************************************************)
(* rust-blaster: the authoritative server, its per-connection network      *)
(* threads and the world lock (src/src/networking.rs), the simulation tick *)
(* loop (src/src/main.rs) and the client's snapshot reconciliation         *)
(* (src/src/net_structs.rs).                                               *)
(*                                                                         *)
(* Spec          the server process and its peers: listeners, sender and   *)
(*               receiver threads, the world lock, the streams; a peer's   *)
(*               loops take one whole turn per step.                       *)
(* PairSpec      the server and one peer, every thread step by step.       *)
(* FairPairSpec  PairSpec with the fairness of running threads.            *)
(* SnapSpec      NetFromServer::update_main_state on client states.        *)
(* MainRsSpec    the server and clients of src/src/main.rs, whose          *)
(*               listeners serve a connection themselves.                  *)
(* DecodeSpec    the server and one peer that may send undecodable bytes.  *)
(* StartupSpec   the server from before its listeners are bound.           *)
(* PoisonSpec    the server and one peer, with a tick that may panic.      *)
(* TickSpec      MainState::real_update_server on worlds of players,       *)
(*               rocks and shots, one step of the tick at a time.          *)
(* ShiftSpec     the time shift of a snapshot in f32 arithmetic.           *)
(* RoundSpec     a snapshot built from a server state, sent and applied on *)
(*               an observer.                                              *)
(* InputSpec     a NetClientInput built on a client and applied on the     *)
(*               server.                                                   *)
(* ClientTickSpec  the tick of a client between snapshots.                *)
(* NetMainSpec   network_main: the arguments, net_setup.json, the role.    *)
(* WrapSpec      wrap_actor_position on a player, applied repeatedly.      *)
(* FrameSpec     send_struct and recv_update on one stream, byte by byte.  *)
(* ClientStartSpec  main.rs: the game loop of a process started as client.*)
(* SessionSpec   server ticks, snapshots in order, client ticks.           *)
(* LockedTickSpec  the tick and the snapshot sender, taking the world lock. *)
(* FireSpec      the firing of the players over several ticks.             *)
(* BuildSpec     the shots a client makes and the messages it builds.      *)
(***************************************************************************)
EXTENDS Integers, Sequences, FiniteSets, TLC

\* ------------------------------------------------------------------ bounds
MaxPeers == 2      \* processes that connect to the server
MaxQueue == 1      \* messages a socket buffers before a write blocks
MaxDue == 1        \* simulation ticks the time accumulator can owe
MaxRoster == 2     \* players in a client state or a snapshot
MaxActors == 2     \* rocks and shots in a snapshot

Peers == 1..MaxPeers
InputVals == {0, 1}   \* an InputState: 0 is the all-false default
Undecodable == -2     \* bytes on a stream that do not decode as the message

\* ------------------------------------------------------------------- state
VARIABLES
    \* the server's MainState, behind Arc<Mutex<..>>
    lock,             \* holder of the server's world lock
    players,          \* Vec<Player>; index i of the code is players[i + 1]
    connections,      \* MainState.connections
    difficulty_mult,  \* MainState.difficulty_mult
    due,              \* ticks owed by timer::check_update_time
    \* the two listener threads of server_main
    send_listener, recv_listener,
    \* per peer: the connections and the server threads serving them
    sconn, rconn,     \* port 9942 / 9949: "none", "pending", "accepted"
    snd, rcv,         \* position of server_sender / server_recver
    player_index,     \* server_recver's local player_index (-1: not yet set)
    rdata,            \* the ClientInput server_recver decoded (-1: none)
    \* the streams
    snaps,            \* snapshots buffered on the 9942 connection
    hs,               \* everything the server wrote on the 9949 connection
    c2s,              \* ClientInputs buffered on the 9949 connection
    \* the peer processes
    role,             \* "none", "client", "observer"
    cmain,            \* position of the peer's network_main thread
    obs,              \* position of the observer receive loop
    csnd,             \* position of client_sender_thread
    clock,            \* holder of the peer's own world lock
    lpi,              \* the peer's local_player_index (-1: None)
    hsgot,            \* the NetPlayerConnected the client decoded (-1: none)
    cbuf,             \* the NetClientInput the client built (-1: none)
    \* network_main of one process (NetMainSpec)
    args,             \* env::args() after the program name, each a sequence of characters
    file,             \* net_setup.json and whether it can be created and written
    net,              \* the NetSetup network_main hands to its threads (<<>>: not loaded)
    \* one connection byte by byte (FrameSpec)
    stream,           \* bytes written to the stream and not yet read
    arrived,          \* how many of them have reached the receiving socket
    rbuf,             \* bytes the BufReader of the running recv_update has read
    decoded,          \* the frames recv_update has decoded, in order
    written,          \* messages send_struct has written
    \* NetFromServer::update_main_state on one client state (SnapSpec)
    cstate, snap, pre, once, napplied,
    sstate,           \* the server state a snapshot is built from (RoundSpec)
    cmsg,             \* the NetClientInput on its way to the server (InputSpec)
    smsg,             \* the snapshots on their way to the client, oldest first (SessionSpec)
    \* MainState::real_update_server step by step (TickSpec)
    world,            \* the MainState fields the tick reads and writes
    tick,             \* position of the game loop within a tick
    ctxtime,          \* timer::get_time_since_start, in ticks
    ticks_done,       \* ticks completed
    passin            \* the world as handle_collisions found it

srvvars == <<lock, players, connections, difficulty_mult, due,
             send_listener, recv_listener, sconn, rconn, snd, rcv,
             player_index, rdata, snaps, hs, c2s>>
peervars == <<role, cmain, obs, csnd, clock, lpi, hsgot, cbuf, args, file, net,
              stream, arrived, rbuf, decoded, written>>
snapvars == <<cstate, snap, pre, once, napplied, sstate, cmsg, smsg>>
tickvars == <<world, tick, ctxtime, ticks_done, passin>>
vars == <<srvvars, peervars, snapvars, tickvars>>

\* thread identities, as lock holders
Free == <<"free", 0>>
Sim == <<"sim", 0>>
Snd(p) == <<"server_sender", p>>
Rcv(p) == <<"server_recver", p>>
Obs(p) == <<"observer", p>>
CSnd(p) == <<"client_sender", p>>

\* the peer process runs (its sockets are open)
alive(p) == cmain[p] \in {"connect_snap", "connect_input", "done"}

\* ------------------------------------------------------------ entity model
Zero == <<0, 0>>      \* na::zero()

\* Actor::create_player_actor / create_rock / create_shot: zeroed kinematics
\* (pos and velocity are #[serde(skip)]; serial_interm carries them)
create_actor(tag) ==
    [tag |-> tag, pos |-> Zero, velocity |-> Zero, facing |-> 0,
     serial_interm |-> [pos |-> Zero, vel |-> Zero]]

\* Player::create
create_player ==
    [actor |-> create_actor("Player"), input |-> 0, last_shot_at |-> 0]

\* variants to compare with: no push; the index read as len() after the push
add_player_forgotten(ps) == ps
add_player_index_after_push(ps) == Len(ps) + 1
\* a variant to compare with: the index of the last player before the push
add_player_index_before_push(ps) == Len(ps) - 1

\* MainState::add_player: pushes a new player and returns its index, which
\* is len() - 1 after the push, the count before it
add_player(ps) == Append(ps, create_player)
add_player_index(ps) == Len(ps)

\* a variant to compare with: the velocity is not copied
pre_serialize_pos_only(a) ==
    [a EXCEPT !.serial_interm = [pos |-> <<a.pos[1], a.pos[2]>>,
                                 vel |-> a.serial_interm.vel]]

\* Actor::pre_serialize
pre_serialize(a) ==
    [a EXCEPT !.serial_interm = [pos |-> <<a.pos[1], a.pos[2]>>,
                                 vel |-> <<a.velocity[1], a.velocity[2]>>]]

\* Actor::post_deserialize
post_deserialize(a) ==
    [a EXCEPT !.pos = <<a.serial_interm.pos[1], a.serial_interm.pos[2]>>,
              !.velocity = <<a.serial_interm.vel[1], a.serial_interm.vel[2]>>]

NetPlayerConnected(i) == [type |-> "HandshakeAssignIndex", player_index |-> i]

\* ---------------------------------------------------------------- listeners
\* server_main: each accepted stream is moved into a thread spawned for it and
\* the `for listen_result in listener.incoming()` loop takes its next turn.

send_listener_accept(p) ==
    /\ send_listener = "accepting"
    /\ sconn[p] = "pending"
    /\ sconn' = [sconn EXCEPT ![p] = "accepted"]
    /\ snd' = [snd EXCEPT ![p] = "start"]
    /\ send_listener' = "accepting"
    /\ UNCHANGED <<lock, players, connections, difficulty_mult, due,
                   recv_listener, rconn, rcv, player_index, rdata, snaps, hs,
                   c2s, peervars, snapvars, tickvars>>

recv_listener_accept(p) ==
    /\ recv_listener = "accepting"
    /\ rconn[p] = "pending"
    /\ rconn' = [rconn EXCEPT ![p] = "accepted"]
    /\ rcv' = [rcv EXCEPT ![p] = "start"]
    /\ recv_listener' = "accepting"
    /\ UNCHANGED <<lock, players, connections, difficulty_mult, due,
                   send_listener, sconn, snd, player_index, rdata, snaps, hs,
                   c2s, peervars, snapvars, tickvars>>

\* ------------------------------------------------------------ server_sender
\* the spawned closure: state.lock().unwrap().connections += 1
server_sender_connected(p) ==
    /\ snd[p] = "start"
    /\ lock = Free
    /\ connections' = connections + 1
    /\ snd' = [snd EXCEPT ![p] = "sleep"]
    /\ UNCHANGED <<lock, players, difficulty_mult, due, send_listener,
                   recv_listener, sconn, rconn, rcv, player_index, rdata, snaps,
                   hs, c2s, peervars, snapvars, tickvars>>

\* block_for_next has returned; `let state = stateptr.state.lock().unwrap()`
server_sender_lock(p) ==
    /\ snd[p] = "sleep"
    /\ lock = Free
    /\ lock' = Snd(p)
    /\ snd' = [snd EXCEPT ![p] = "locked"]
    /\ UNCHANGED <<players, connections, difficulty_mult, due, send_listener,
                   recv_listener, sconn, rconn, rcv, player_index, rdata, snaps,
                   hs, c2s, peervars, snapvars, tickvars>>

\* a variant to compare with: the guard kept alive across send_struct
server_sender_make_holding(p) ==
    /\ snd[p] = "locked"
    /\ snd' = [snd EXCEPT ![p] = "write"]
    /\ UNCHANGED <<lock, players, connections, difficulty_mult, due,
                   send_listener, recv_listener, sconn, rconn, rcv, player_index,
                   rdata, snaps, hs, c2s, peervars, snapvars, tickvars>>

\* NetFromServer::make_from_state(&state); the guard is dropped at the end of
\* the block, before send_struct
server_sender_make(p) ==
    /\ snd[p] = "locked"
    /\ lock' = Free
    /\ snd' = [snd EXCEPT ![p] = "write"]
    /\ UNCHANGED <<players, connections, difficulty_mult, due, send_listener,
                   recv_listener, sconn, rconn, rcv, player_index, rdata, snaps,
                   hs, c2s, peervars, snapvars, tickvars>>

\* send_struct: write_all returns Ok, the snapshot is in the socket buffer
server_sender_write(p) ==
    /\ snd[p] = "write"
    /\ alive(p)
    /\ snaps[p] < MaxQueue
    /\ snaps' = [snaps EXCEPT ![p] = @ + 1]
    /\ snd' = [snd EXCEPT ![p] = "sleep"]
    /\ UNCHANGED <<lock, players, connections, difficulty_mult, due,
                   send_listener, recv_listener, sconn, rconn, rcv, player_index,
                   rdata, hs, c2s, peervars, snapvars, tickvars>>

\* send_struct: write_all returns Err (the buffer stayed full until the write
\* timeout, or the peer is gone); `let _ =` drops the error, the loop goes on
server_sender_write_fails(p) ==
    /\ snd[p] = "write"
    /\ (~alive(p) \/ snaps[p] >= MaxQueue)
    /\ snd' = [snd EXCEPT ![p] = "sleep"]
    /\ UNCHANGED <<lock, players, connections, difficulty_mult, due,
                   send_listener, recv_listener, sconn, rconn, rcv, player_index,
                   rdata, snaps, hs, c2s, peervars, snapvars, tickvars>>


\* ------------------------------------------------------------ server_recver
\* `let mut state = stateptr.state.lock().unwrap()` of the registration block
server_recver_lock(p) ==
    /\ rcv[p] = "start"
    /\ lock = Free
    /\ lock' = Rcv(p)
    /\ rcv' = [rcv EXCEPT ![p] = "registering"]
    /\ UNCHANGED <<players, connections, difficulty_mult, due, send_listener,
                   recv_listener, sconn, rconn, snd, player_index, rdata, snaps,
                   hs, c2s, peervars, snapvars, tickvars>>

\* player_index = state.add_player(); state.difficulty_mult *= 2.0; the guard
\* is dropped at the end of the block
server_recver_register(p) ==
    /\ rcv[p] = "registering"
    /\ player_index' = [player_index EXCEPT ![p] = add_player_index(players)]
    /\ players' = add_player(players)
    /\ difficulty_mult' = difficulty_mult * 2
    /\ lock' = Free
    /\ rcv' = [rcv EXCEPT ![p] = "handshake"]
    /\ UNCHANGED <<connections, due, send_listener, recv_listener, sconn, rconn,
                   snd, rdata, snaps, hs, c2s, peervars, snapvars, tickvars>>

\* a variant to compare with: the loop entered without the handshake
server_recver_no_handshake(p) ==
    /\ rcv[p] = "handshake"
    /\ rcv' = [rcv EXCEPT ![p] = "read"]
    /\ UNCHANGED <<lock, players, connections, difficulty_mult, due,
                   send_listener, recv_listener, sconn, rconn, snd, player_index,
                   rdata, snaps, hs, c2s, peervars, snapvars, tickvars>>

\* send_struct(&mut stream, NetPlayerConnected::make(player_index))
server_recver_handshake(p) ==
    /\ rcv[p] = "handshake"
    /\ hs' = [hs EXCEPT ![p] = Append(@, NetPlayerConnected(player_index[p]))]
    /\ rcv' = [rcv EXCEPT ![p] = "read"]
    /\ UNCHANGED <<lock, players, connections, difficulty_mult, due,
                   send_listener, recv_listener, sconn, rconn, snd, player_index,
                   rdata, snaps, c2s, peervars, snapvars, tickvars>>

\* recv_update: a fresh BufReader fills from the socket (k buffered messages),
\* bincode decodes the first one, the reader is dropped with the rest
server_recver_read(p) ==
    /\ rcv[p] = "read"
    /\ c2s[p] # <<>>
    /\ Head(c2s[p]) \in InputVals
    /\ \E k \in 1..Len(c2s[p]) :
          /\ rdata' = [rdata EXCEPT ![p] = Head(c2s[p])]
          /\ c2s' = [c2s EXCEPT ![p] = SubSeq(@, k + 1, Len(@))]
    /\ rcv' = [rcv EXCEPT ![p] = "got"]
    /\ UNCHANGED <<lock, players, connections, difficulty_mult, due,
                   send_listener, recv_listener, sconn, rconn, snd, player_index,
                   snaps, hs, peervars, snapvars, tickvars>>

\* recv_update: deserialize_from returns Err (read timeout, reset, closed
\* stream); the closure is not called, server_recver's loop takes its next
\* turn: block_for_next, then recv_update again
server_recver_read_fails(p) ==
    /\ rcv[p] = "read"
    /\ (c2s[p] = <<>> \/ ~alive(p))
    /\ rcv' = [rcv EXCEPT ![p] = "read"]
    /\ UNCHANGED <<lock, players, connections, difficulty_mult, due,
                   send_listener, recv_listener, sconn, rconn, snd, player_index,
                   rdata, snaps, hs, c2s, peervars, snapvars, tickvars>>

\* recv_update: the bytes read do not decode (deserialize_from is Err): the
\* closure is not called, the reader is dropped with what it had buffered,
\* server_recver's loop takes its next turn
server_recver_read_undecodable(p) ==
    /\ rcv[p] = "read"
    /\ c2s[p] # <<>>
    /\ Head(c2s[p]) = Undecodable
    /\ \E k \in 1..Len(c2s[p]) :
          c2s' = [c2s EXCEPT ![p] = SubSeq(@, k + 1, Len(@))]
    /\ rcv' = [rcv EXCEPT ![p] = "read"]
    /\ UNCHANGED <<lock, players, connections, difficulty_mult, due,
                   send_listener, recv_listener, sconn, rconn, snd, player_index,
                   rdata, snaps, hs, peervars, snapvars, tickvars>>

\* the peer of an input connection writes bytes that are no message
peer_sends_undecodable(p) ==
    /\ alive(p)
    /\ rconn[p] # "none"
    /\ Len(c2s[p]) < MaxQueue
    /\ c2s' = [c2s EXCEPT ![p] = Append(@, Undecodable)]
    /\ UNCHANGED <<lock, players, connections, difficulty_mult, due,
                   send_listener, recv_listener, sconn, rconn, snd, rcv,
                   player_index, rdata, snaps, hs, peervars, snapvars, tickvars>>

\* the closure given to recv_update: `match stateptr.state.lock()`
server_recver_apply_lock(p) ==
    /\ rcv[p] = "got"
    /\ lock = Free
    /\ lock' = Rcv(p)
    /\ rcv' = [rcv EXCEPT ![p] = "applying"]
    /\ UNCHANGED <<players, connections, difficulty_mult, due, send_listener,
                   recv_listener, sconn, rconn, snd, player_index, rdata, snaps,
                   hs, c2s, peervars, snapvars, tickvars>>

\* NetClientInput::update_main_state(player_id, state), as far as the input goes
client_input_update_main_state(data, player_id, ps) ==
    [ps EXCEPT ![player_id + 1].input = data]

\* data.update_main_state(player_index, state); the guard is dropped and the
\* loop returns to block_for_next
server_recver_apply(p) ==
    /\ rcv[p] = "applying"
    /\ players' = client_input_update_main_state(rdata[p], player_index[p], players)
    /\ rdata' = [rdata EXCEPT ![p] = -1]
    /\ lock' = Free
    /\ rcv' = [rcv EXCEPT ![p] = "read"]
    /\ UNCHANGED <<connections, difficulty_mult, due, send_listener,
                   recv_listener, sconn, rconn, snd, player_index, snaps, hs,
                   c2s, peervars, snapvars, tickvars>>

\* ------------------------------------------------------ the simulation loop
\* wall time passes: timer::check_update_time owes one more tick
time_advance ==
    /\ due < MaxDue
    /\ due' = due + 1
    /\ UNCHANGED <<lock, players, connections, difficulty_mult, send_listener,
                   recv_listener, sconn, rconn, snd, rcv, player_index, rdata,
                   snaps, hs, c2s, peervars, snapvars, tickvars>>

\* StatePtr::update: `let mut locked_state = self.state.lock().unwrap()`
update_lock ==
    /\ due > 0
    /\ lock = Free
    /\ lock' = Sim
    /\ UNCHANGED <<players, connections, difficulty_mult, due, send_listener,
                   recv_listener, sconn, rconn, snd, rcv, player_index, rdata,
                   snaps, hs, c2s, peervars, snapvars, tickvars>>

\* MainState::restart_game, as far as the players' input goes
restart_game(ps) == [i \in DOMAIN ps |-> [ps[i] EXCEPT !.input = 0]]

\* a variant to compare with: the local input drives every player
real_update_server_every_player(ps, local_input, should_restart) ==
    LET ps1 == [i \in DOMAIN ps |-> [ps[i] EXCEPT !.input = local_input]]
    IN  IF should_restart THEN restart_game(ps1) ELSE ps1

\* MainState::real_update_server, as far as the players' input goes: the
\* host's player takes local_input; a rock on a player restarts the game
real_update_server(ps, local_input, should_restart) ==
    LET ps1 == [ps EXCEPT ![1].input = local_input]
    IN  IF should_restart THEN restart_game(ps1) ELSE ps1

\* one turn of the `while timer::check_update_time` loop, the lock held from
\* the first step of the tick to the last
update_tick ==
    /\ lock = Sim
    /\ \E li \in InputVals, r \in BOOLEAN :
          players' = real_update_server(players, li, r)
    /\ due' = due - 1
    /\ lock' = Free
    /\ UNCHANGED <<connections, difficulty_mult, send_listener, recv_listener,
                   sconn, rconn, snd, rcv, player_index, rdata, snaps, hs, c2s,
                   peervars, snapvars, tickvars>>

\* ------------------------------------------------- client reconciliation

\* f32 on whole numbers of a time unit that is a power of two of a second
\* (2^-20 s, say): a value with more than 24 significant bits is rounded to
\* the nearest value with 24, ties to the even mantissa
MantissaBits == 24
RECURSIVE Pow2(_)
Pow2(n) == IF n = 0 THEN 1 ELSE 2 * Pow2(n - 1)
Abs(x) == IF x < 0 THEN -x ELSE x
\* the spacing of the f32 values at the magnitude of x
RECURSIVE quantum(_)
quantum(x) == IF Abs(x) < Pow2(MantissaBits) THEN 1 ELSE 2 * quantum(Abs(x) \div 2)
fl(x) ==
    LET q == quantum(x)
        lo == (Abs(x) \div q) * q
        rem == Abs(x) - lo
        up == \/ 2 * rem > q
              \/ 2 * rem = q /\ (lo \div q) % 2 = 1
        r == IF up THEN lo + q ELSE lo
    IN  IF x < 0 THEN -r ELSE r
\* the f32 subtraction
fsub(a, b) == fl(a - b)

\* a variant to compare with: the merge without the local_player_index test
\* (the lines commented out at net_structs.rs 149-150 put back)
merge_players_overwriting(local, remote, lpi_, time_diff) ==
    [i \in DOMAIN local |->
        IF i <= Len(remote)
        THEN LET q == [remote[i] EXCEPT !.actor = post_deserialize(@)]
             IN  [q EXCEPT !.last_shot_at = fsub(@, time_diff)]
        ELSE local[i]]

\* the per-index merge of NetFromServer::update_main_state, from the last
\* index down to 0: the local player's element is popped and dropped, every
\* other one replaces the client's and is post_deserialized; each one's
\* last_shot_at is moved by time_diff
merge_players(local, remote, lpi_, time_diff) ==
    [i \in DOMAIN local |->
        IF i <= Len(remote)
        THEN LET q == IF lpi_ = i - 1
                      THEN local[i]
                      ELSE [remote[i] EXCEPT !.actor = post_deserialize(@)]
             IN  [q EXCEPT !.last_shot_at = fsub(@, time_diff)]
        ELSE local[i]]

\* a variant to compare with: no player is created before the merge
grow_players_not(local, n) == local

\* `while self.players.len() > state.players.len() { state.add_player(); }`
RECURSIVE grow_players(_, _)
grow_players(local, n) ==
    IF n > Len(local) THEN grow_players(add_player(local), n) ELSE local

\* the loop over self.actors: post_deserialize, then push by tag onto `onto`
RECURSIVE push_actors(_, _, _)
push_actors(onto, actors, tag) ==
    IF actors = <<>> THEN onto
    ELSE LET a == post_deserialize(Head(actors))
         IN  push_actors(IF a.tag = tag THEN Append(onto, a) ELSE onto,
                         Tail(actors), tag)

\* a variant to compare with: the list is not cleared
clear_kept(list) == list

\* state.rocks.clear(); state.shots.clear()
clear(list) == <<>>

\* NetFromServer::update_main_state(self, state)
update_main_state(self, state) ==
    LET time_diff == fsub(state.curr_time, self.server_time)
        grown == grow_players(state.players, Len(self.players))
    IN  [state EXCEPT
            !.score = self.score,
            !.curr_time = self.server_time,
            !.players = merge_players(grown, self.players,
                                      state.local_player_index, time_diff),
            !.rocks = push_actors(clear(state.rocks), self.actors, "Rock"),
            !.shots = push_actors(clear(state.shots), self.actors, "Shot")]

\* the states and snapshots update_main_state is applied to
Vecs == {<<0, 0>>, <<5, -3>>}
Tags == {"Player", "Rock", "Shot"}

\* an actor as the game holds it
LiveActor(tag, pos) == [create_actor(tag) EXCEPT !.pos = pos, !.velocity = <<2, 1>>,
                                               !.facing = 1]
\* an actor as bincode delivers it: pos and velocity skipped, hence zero
WireActor(tag, pos, vel) ==
    [create_actor(tag) EXCEPT !.serial_interm = [pos |-> pos, vel |-> vel]]

SeqsUpTo(S, lo, hi) == UNION {[1..n -> S] : n \in lo..hi}

ClientPlayers ==
    {[actor |-> LiveActor("Player", v), input |-> 0, last_shot_at |-> 1] : v \in Vecs}
WirePlayers ==
    {[actor |-> WireActor("Player", <<v[1] + 1, v[2] + 7>>, <<3, 4>>),
      input |-> 1, last_shot_at |-> 2] : v \in Vecs}

ClientStates ==
    {[players |-> ps,
      rocks |-> IF stale THEN <<LiveActor("Rock", <<9, 9>>)>> ELSE <<>>,
      shots |-> IF stale THEN <<LiveActor("Shot", <<8, 8>>)>> ELSE <<>>,
      score |-> IF stale THEN 7 ELSE 0,
      curr_time |-> t,
      local_player_index |-> l] :
        ps \in SeqsUpTo(ClientPlayers, 1, MaxRoster), stale \in BOOLEAN,
        t \in {2, 5}, l \in -1..(MaxRoster - 1)}

Snapshots ==
    {[players |-> ps,
      actors |-> [k \in DOMAIN tags |-> WireActor(tags[k], <<k, -k>>, <<k, 1>>)],
      score |-> 3,
      server_time |-> t] :
        ps \in SeqsUpTo(WirePlayers, 0, MaxRoster),
        tags \in SeqsUpTo(Tags, 0, MaxActors), t \in {1, 4}}

SnapInit ==
    /\ cstate \in ClientStates
    /\ snap \in Snapshots
    /\ pre = cstate
    /\ once = cstate
    /\ napplied = 0
    /\ sstate = <<>>
    /\ cmsg = <<>>
    /\ smsg = <<>>

\* the observer loop's closure runs on a decoded snapshot; the same snapshot
\* may be applied again (pre: the state before the first application, once:
\* the state after it)
apply_snapshot ==
    /\ napplied < 2
    /\ cstate' = update_main_state(snap, cstate)
    /\ once' = IF napplied = 0 THEN cstate' ELSE once
    /\ napplied' = napplied + 1
    /\ UNCHANGED <<snap, pre, sstate, cmsg, smsg, srvvars, peervars, tickvars>>

\* ------------------------------------------- the server's tick, in full
\* lengths in pixels, times in ticks (1/144 s), speeds in pixels per tick
PLAYER_LIFE == 144        \* 1.0 s
SHOT_LIFE == 288          \* 2.0 s
ROCK_LIFE == 144          \* 1.0 s
PLAYER_BBOX == 12
ROCK_BBOX == 12
SHOT_BBOX == 6
PLAYER_SPEED == 3         \* 500 px/s
MAX_PHYSICS_VEL == 7      \* 950 px/s
SHOT_SPEED == 9           \* 1100 px/s
PLAYER_SHOT_TIME == 29    \* 0.2 s
screen_width == 1080      \* conf::WindowMode dimensions(1080, 1080)
screen_height == 1080
seconds == 1              \* 1.0 / DESIRED_FPS
spawn_loops == 2          \* (delta / 0.004).round()

MaxTicks == 1      \* ticks of one behaviour
MaxRocks == 3      \* rocks in the world
MaxShots == 4      \* shots in the world

\* InputState and its default
InputState(u, d, l, r, f) ==
    [up |-> u, down |-> d, left |-> l, right |-> r, fire |-> f]
InputDefault == InputState(FALSE, FALSE, FALSE, FALSE, FALSE)

\* an Actor without facing and ang_vel, which only the drawing reads
Actor(tag, pos, velocity, bbox_size, life) ==
    [tag |-> tag, pos |-> pos, velocity |-> velocity,
     bbox_size |-> bbox_size, life |-> life]

create_player_actor == Actor("Player", Zero, Zero, PLAYER_BBOX, PLAYER_LIFE)
create_player_from_actor(actor) ==
    [actor |-> actor, input |-> InputDefault, last_shot_at |-> 0]
create_rock == Actor("Rock", Zero, Zero, ROCK_BBOX, ROCK_LIFE)
create_shot == Actor("Shot", Zero, Zero, SHOT_BBOX, SHOT_LIFE)

\* Vector2
vplus(a, b) == <<a[1] + b[1], a[2] + b[2]>>
vminus(a, b) == <<a[1] - b[1], a[2] - b[2]>>
vscale(a, k) == <<a[1] * k, a[2] * k>>
norm_squared(a) == a[1] * a[1] + a[2] * a[2]
\* f32::sqrt, and the division of a component by it, on whole numbers
sqrt(n) == CHOOSE r \in 0..n : r * r <= n /\ n < (r + 1) * (r + 1)
quot(a, b) == IF a >= 0 THEN a \div b ELSE -((-a) \div b)
\* a.norm() < d, for d >= 0
norm_below(a, d) == norm_squared(a) < d * d

bool_to_f(v) == IF v THEN 1 ELSE 0

player_handle_input(actor, input, dt) ==
    LET point == <<bool_to_f(input.right) - bool_to_f(input.left),
                   bool_to_f(input.up) - bool_to_f(input.down)>>
    IN  [actor EXCEPT !.pos = vplus(@, vscale(point, dt * PLAYER_SPEED))]

update_actor_position(actor, dt) ==
    LET norm_sq == norm_squared(actor.velocity)
        velocity == IF norm_sq > MAX_PHYSICS_VEL * MAX_PHYSICS_VEL
                    THEN <<quot(actor.velocity[1] * MAX_PHYSICS_VEL, sqrt(norm_sq)),
                           quot(actor.velocity[2] * MAX_PHYSICS_VEL, sqrt(norm_sq))>>
                    ELSE actor.velocity
    IN  [actor EXCEPT !.velocity = velocity,
                      !.pos = vplus(@, vscale(velocity, dt))]

\* a variant to compare with: no wrapping at all
wrap_actor_position_not(actor, sx, sy) == actor

\* a variant to compare with: the edge itself wraps
wrap_axis_inclusive(c, s) ==
    IF c >= s \div 2 THEN c - s
    ELSE IF c <= -(s \div 2) THEN c + s
    ELSE c

wrap_axis(c, s) ==
    IF c > s \div 2 THEN c - s
    ELSE IF c < -(s \div 2) THEN c + s
    ELSE c
wrap_actor_position(actor, sx, sy) ==
    [actor EXCEPT !.pos = <<wrap_axis(@[1], sx), wrap_axis(@[2], sy)>>]

is_out_of_bounds(actor, sx, sy) ==
    \/ actor.pos[1] > sx \div 2
    \/ actor.pos[1] < -(sx \div 2)
    \/ actor.pos[2] > sy \div 2
    \/ actor.pos[2] < -(sy \div 2)

handle_timed_life(actor, dt) == [actor EXCEPT !.life = @ - dt]

\* three shots at the player's position; the player's facing stays 0, and
\* vec_from_angle(0) is (0, 1)
fire_player_shot(shots_ref, player) ==
    shots_ref \o
    [k \in 1..3 |->
        [create_shot EXCEPT
            !.pos = player.actor.pos,
            !.velocity = <<SHOT_SPEED * 0 + (k - 2) * (SHOT_SPEED \div 3),
                           SHOT_SPEED * 1>>]]

\* a variant to compare with: only the shots are swept
clear_dead_stuff_shots_only(w) ==
    [w EXCEPT !.shots = SelectSeq(@, LAMBDA s : s.life > 0)]

clear_dead_stuff(w) ==
    [w EXCEPT !.shots = SelectSeq(@, LAMBDA s : s.life > 0),
              !.rocks = SelectSeq(@, LAMBDA r : r.life > 0)]

\* a variant to compare with: the score survives the restart
restart_game_score_kept(w, now) ==
    [w EXCEPT
        !.local_input = InputDefault,
        !.players = [i \in DOMAIN @ |->
                        [@[i] EXCEPT !.last_shot_at = 0, !.input = InputDefault]],
        !.start_time = now,
        !.shots = [i \in DOMAIN @ |-> [@[i] EXCEPT !.life = 0]],
        !.rocks = [i \in DOMAIN @ |-> [@[i] EXCEPT !.life = 0]]]

MainState_restart_game(w, now) ==
    [w EXCEPT
        !.local_input = InputDefault,
        !.players = [i \in DOMAIN @ |->
                        [@[i] EXCEPT !.last_shot_at = 0, !.input = InputDefault]],
        !.score = 0,
        !.start_time = now,
        !.shots = [i \in DOMAIN @ |-> [@[i] EXCEPT !.life = 0]],
        !.rocks = [i \in DOMAIN @ |-> [@[i] EXCEPT !.life = 0]]]

\* handle_collisions, the loop over the players for one rock
RECURSIVE collide_players(_, _, _, _)
collide_players(rock, ps, i, should_restart) ==
    IF i > Len(ps) THEN should_restart
    ELSE collide_players(rock, ps, i + 1,
            IF norm_below(vminus(rock.pos, ps[i].actor.pos),
                          ps[i].actor.bbox_size + rock.bbox_size)
            THEN TRUE ELSE should_restart)

\* handle_collisions, the loop over the shots for one rock; acc holds the
\* rock, the shots and the score
RECURSIVE collide_shots(_, _)
collide_shots(acc, j) ==
    IF j > Len(acc.shots) THEN acc
    ELSE collide_shots(
            IF norm_below(vminus(acc.shots[j].pos, acc.rock.pos),
                          acc.shots[j].bbox_size + acc.rock.bbox_size)
            THEN [rock |-> [acc.rock EXCEPT !.life = 0],
                  shots |-> [acc.shots EXCEPT ![j].life = 0],
                  score |-> acc.score + 1]
            ELSE acc,
            j + 1)

\* handle_collisions, the loop over the rocks; acc holds the world and
\* should_restart
RECURSIVE collide_rocks(_, _)
collide_rocks(acc, i) ==
    IF i > Len(acc.w.rocks) THEN acc
    ELSE LET w == acc.w
             r == collide_players(w.rocks[i], w.players, 1, acc.should_restart)
             s == collide_shots([rock |-> w.rocks[i], shots |-> w.shots,
                                 score |-> w.score], 1)
         IN  collide_rocks(
                [w |-> [w EXCEPT !.rocks[i] = s.rock, !.shots = s.shots,
                                 !.score = s.score],
                 should_restart |-> r],
                i + 1)

\* a variant to compare with: a hit marks the rock and leaves the shot
handle_collisions_rock_only(w, now) ==
    LET acc == collide_rocks([w |-> w, should_restart |-> FALSE], 1)
        hit == [acc.w EXCEPT !.shots = w.shots]
    IN  IF acc.should_restart THEN MainState_restart_game(hit, now) ELSE hit

handle_collisions(w, now) ==
    LET acc == collide_rocks([w |-> w, should_restart |-> FALSE], 1)
    IN  IF acc.should_restart THEN MainState_restart_game(acc.w, now) ELSE acc.w

\* spawn_rocks: each of the loops may push a rock at the top of the screen,
\* at a random x, flying down
spawn_x == {-100}
spawn_velocity == {<<0, -1>>}
spawned_rock(x, v) ==
    [create_rock EXCEPT !.pos = <<x, screen_height \div 2 - 15>>, !.velocity = v]
spawn_rocks(w, new) == [w EXCEPT !.rocks = @ \o new]

\* a variant to compare with: every player whose fire input is set fires
RECURSIVE fire_loop_every_tick(_, _, _)
fire_loop_every_tick(acc, i, curr_time) ==
    IF i > Len(acc.players) THEN acc
    ELSE LET p == acc.players[i]
         IN  fire_loop_every_tick(
                IF p.input.fire
                THEN [players |-> [acc.players EXCEPT ![i].last_shot_at = curr_time],
                      shots |-> fire_player_shot(acc.shots, p)]
                ELSE acc,
                i + 1, curr_time)

\* the firing loop of real_update_server over the players from i on; acc
\* holds the players and the shots
RECURSIVE fire_loop(_, _, _)
fire_loop(acc, i, curr_time) ==
    IF i > Len(acc.players) THEN acc
    ELSE LET p == acc.players[i]
         IN  fire_loop(
                IF p.input.fire /\ p.last_shot_at <= curr_time - PLAYER_SHOT_TIME
                THEN [players |-> [acc.players EXCEPT ![i].last_shot_at = curr_time],
                      shots |-> fire_player_shot(acc.shots, p)]
                ELSE acc,
                i + 1, curr_time)

\* real_update_server up to the call of handle_collisions: the inputs, the
\* firing, the integration, the wrapping and the marking
integrate(w, dt) ==
    LET ps1 == [w.players EXCEPT ![1].input = w.local_input]
        ps2 == [i \in DOMAIN ps1 |->
                   [ps1[i] EXCEPT !.actor = player_handle_input(@, ps1[i].input, dt)]]
        f == fire_loop([players |-> ps2, shots |-> w.shots], 1, w.curr_time)
        ps3 == [i \in DOMAIN f.players |->
                   [f.players[i] EXCEPT !.actor =
                       wrap_actor_position(update_actor_position(@, dt),
                                           screen_width, screen_height)]]
        mark(a) == IF is_out_of_bounds(a, screen_width, screen_height)
                   THEN [a EXCEPT !.life = 0] ELSE a
        shots3 == [i \in DOMAIN f.shots |->
                     handle_timed_life(mark(update_actor_position(f.shots[i], dt)), dt)]
        rocks3 == [i \in DOMAIN w.rocks |->
                     mark(update_actor_position(w.rocks[i], dt))]
    IN  [w EXCEPT !.players = ps3, !.shots = shots3, !.rocks = rocks3]

\* get_level_time
get_level_time(now, w) == now - w.start_time

NoWorld ==
    [players |-> <<>>, shots |-> <<>>, rocks |-> <<>>, score |-> 0,
     curr_time |-> 0, start_time |-> 0, local_input |-> InputDefault]

\* the specifications of the network layer leave the world aside
TickIdle ==
    /\ world = NoWorld
    /\ tick = "off"
    /\ ctxtime = 0
    /\ ticks_done = 0
    /\ passin = NoWorld

\* ---------------------------------------------------------- the peer process
\* the specifications above the byte level leave the stream's bytes aside
FrameIdle ==
    /\ stream = <<>>
    /\ arrived = 0
    /\ rbuf = <<>>
    /\ decoded = <<>>
    /\ written = 0

\* NetSetup::default()
NetSetup_default ==
    [transfer_ms |-> 33, timeout_ms |-> 1000, packet_ttl |-> 60,
     non_blocking |-> FALSE, nodelay |-> TRUE]

\* net_setup.json: absent, unparsable, or holding a NetSetup; creatable and
\* writable say whether File::create and the write of the defaults succeed
NoFile == [state |-> "absent", data |-> NetSetup_default,
           creatable |-> TRUE, writable |-> TRUE]

\* a variant to compare with: the loaded value is used as it is
NetSetup_raise_not(transfer_ms) == transfer_ms
\* std::cmp::max(data.transfer_ms, 1)
NetSetup_raise(transfer_ms) == IF transfer_ms >= 1 THEN transfer_ms ELSE 1

\* NetSetup::from_file: Err when File::open or serde_json::from_reader fails
NetSetup_from_file(f) ==
    IF f.state = "ok"
    THEN [ok |-> TRUE, data |-> [f.data EXCEPT !.transfer_ms = NetSetup_raise(@)]]
    ELSE [ok |-> FALSE, data |-> NetSetup_default]

\* NetSetup::write_default: File::create truncates; a failed write is ignored
NetSetup_write_default(f) ==
    IF f.creatable
    THEN [net |-> NetSetup_default,
          file |-> IF f.writable
                   THEN [f EXCEPT !.state = "ok", !.data = NetSetup_default]
                   ELSE [f EXCEPT !.state = "unparsable"]]
    ELSE [net |-> NetSetup_default, file |-> f]

\* str::starts_with("s") on an argument given as its characters
starts_with_s(arg) == Len(arg) >= 1 /\ arg[1] = "s"
\* a variant to compare with: network_main of main.rs knows no observer
network_main_role_main_rs(nargs, sprefix) ==
    IF nargs + 1 <= 2 THEN "server" ELSE "client"

\* network_main: the role follows from the argument count and the first
\* argument's prefix (nargs counts the arguments after the program name)
network_main_role(nargs, sprefix) ==
    IF nargs + 1 <= 2 THEN "server"
    ELSE IF sprefix THEN "observer" ELSE "client"

\* network_main of a process started with an address: an observer first sets
\* local_player_index = None
network_main(p) ==
    /\ role[p] = "none"
    /\ \E sprefix \in BOOLEAN :
          /\ role' = [role EXCEPT ![p] = network_main_role(2, sprefix)]
          /\ lpi' = [lpi EXCEPT ![p] = IF sprefix THEN -1 ELSE @]
    /\ cmain' = [cmain EXCEPT ![p] = "connect_snap"]
    /\ UNCHANGED <<obs, csnd, clock, hsgot, cbuf, args, file, net, stream,
                   arrived, rbuf, decoded, written, srvvars, snapvars, tickvars>>

\* a variant to compare with: every role goes on to the input port
after_snapshot_connect_any(r) == "connect_input"

\* network_main: the observer branch ends with spawn_observer_thread, the
\* client branch calls client_main, which goes on to the input port
after_snapshot_connect(r) == IF r = "client" THEN "connect_input" ELSE "done"

\* spawn_observer_thread: TcpStream::connect(<addr>:9942), then the receive
\* loop is spawned; only client_main goes on to the input port
spawn_observer_thread(p) ==
    /\ cmain[p] = "connect_snap"
    /\ sconn' = [sconn EXCEPT ![p] = "pending"]
    /\ obs' = [obs EXCEPT ![p] = "read"]
    /\ cmain' = [cmain EXCEPT ![p] = after_snapshot_connect(role[p])]
    /\ UNCHANGED <<lock, players, connections, difficulty_mult, due,
                   send_listener, recv_listener, rconn, snd, rcv, player_index,
                   rdata, snaps, hs, c2s, role, csnd, clock, lpi, hsgot, cbuf,
                   args, file, net, stream, arrived, rbuf, decoded, written,
                   snapvars, tickvars>>

\* client_main: TcpStream::connect(<addr>:9949), then client_sender_thread is
\* spawned
client_main(p) ==
    /\ cmain[p] = "connect_input"
    /\ rconn' = [rconn EXCEPT ![p] = "pending"]
    /\ csnd' = [csnd EXCEPT ![p] = "hswait"]
    /\ cmain' = [cmain EXCEPT ![p] = "done"]
    /\ UNCHANGED <<lock, players, connections, difficulty_mult, due,
                   send_listener, recv_listener, sconn, snd, rcv, player_index,
                   rdata, snaps, hs, c2s, role, obs, clock, lpi, hsgot, cbuf,
                   args, file, net, stream, arrived, rbuf, decoded, written,
                   snapvars, tickvars>>

\* the observer loop's recv_update: a fresh BufReader fills from the socket
\* (k buffered snapshots) and one NetFromServer is decoded
observer_read(p) ==
    /\ obs[p] = "read"
    /\ snaps[p] > 0
    /\ \E k \in 1..snaps[p] : snaps' = [snaps EXCEPT ![p] = @ - k]
    /\ obs' = [obs EXCEPT ![p] = "got"]
    /\ UNCHANGED <<lock, players, connections, difficulty_mult, due,
                   send_listener, recv_listener, sconn, rconn, snd, rcv,
                   player_index, rdata, hs, c2s, role, cmain, csnd, clock, lpi,
                   hsgot, cbuf, args, file, net, stream, arrived, rbuf, decoded,
                   written, snapvars, tickvars>>

\* the closure: `let mut state = ptr.state.lock().unwrap()`
observer_lock(p) ==
    /\ obs[p] = "got"
    /\ clock[p] = Free
    /\ clock' = [clock EXCEPT ![p] = Obs(p)]
    /\ obs' = [obs EXCEPT ![p] = "applying"]
    /\ UNCHANGED <<role, cmain, csnd, lpi, hsgot, cbuf, args, file, net, stream,
                   arrived, rbuf, decoded, written, srvvars, snapvars, tickvars>>

\* data.update_main_state(&mut state); the guard is dropped with the closure
observer_apply(p) ==
    /\ obs[p] = "applying"
    /\ clock' = [clock EXCEPT ![p] = Free]
    /\ obs' = [obs EXCEPT ![p] = "read"]
    /\ UNCHANGED <<role, cmain, csnd, lpi, hsgot, cbuf, args, file, net, stream,
                   arrived, rbuf, decoded, written, srvvars, snapvars, tickvars>>

\* client_sender_thread's first recv_update decodes the NetPlayerConnected
client_recv_handshake(p) ==
    /\ csnd[p] = "hswait"
    /\ hs[p] # <<>>
    /\ hsgot' = [hsgot EXCEPT ![p] = Head(hs[p]).player_index]
    /\ csnd' = [csnd EXCEPT ![p] = "hsgot"]
    /\ UNCHANGED <<role, cmain, obs, clock, lpi, cbuf, args, file, net, stream,
                   arrived, rbuf, decoded, written, srvvars, snapvars, tickvars>>

\* the read times out before the handshake is there: recv_update returns
\* without calling the closure and the thread enters its loop
client_handshake_timeout(p) ==
    /\ csnd[p] = "hswait"
    /\ hs[p] = <<>>
    /\ csnd' = [csnd EXCEPT ![p] = "sleep"]
    /\ UNCHANGED <<role, cmain, obs, clock, lpi, hsgot, cbuf, args, file, net,
                   stream, arrived, rbuf, decoded, written, srvvars, snapvars,
                   tickvars>>

\* ptr.state.lock().unwrap().local_player_index = Some(p_index)
client_handshake_apply(p) ==
    /\ csnd[p] = "hsgot"
    /\ clock[p] = Free
    /\ lpi' = [lpi EXCEPT ![p] = hsgot[p]]
    /\ hsgot' = [hsgot EXCEPT ![p] = -1]
    /\ csnd' = [csnd EXCEPT ![p] = "sleep"]
    /\ UNCHANGED <<role, cmain, obs, clock, cbuf, args, file, net, stream,
                   arrived, rbuf, decoded, written, srvvars, snapvars, tickvars>>

\* block_for_next has returned; `let mut state = ptr.state.lock().unwrap()`
client_sender_lock(p) ==
    /\ csnd[p] = "sleep"
    /\ clock[p] = Free
    /\ clock' = [clock EXCEPT ![p] = CSnd(p)]
    /\ csnd' = [csnd EXCEPT ![p] = "locked"]
    /\ UNCHANGED <<role, cmain, obs, lpi, hsgot, cbuf, args, file, net, stream,
                   arrived, rbuf, decoded, written, srvvars, snapvars, tickvars>>

\* NetClientInput::make_from_state copies local_input, which the key events
\* set to any value; the guard is dropped at the end of the block
client_sender_make(p) ==
    /\ csnd[p] = "locked"
    /\ \E v \in InputVals : cbuf' = [cbuf EXCEPT ![p] = v]
    /\ clock' = [clock EXCEPT ![p] = Free]
    /\ csnd' = [csnd EXCEPT ![p] = "write"]
    /\ UNCHANGED <<role, cmain, obs, lpi, hsgot, args, file, net, stream,
                   arrived, rbuf, decoded, written, srvvars, snapvars, tickvars>>

\* send_struct(&mut send_stream, net_data): written, or failed and dropped
client_sender_write(p) ==
    /\ csnd[p] = "write"
    /\ Len(c2s[p]) < MaxQueue
    /\ c2s' = [c2s EXCEPT ![p] = Append(@, cbuf[p])]
    /\ cbuf' = [cbuf EXCEPT ![p] = -1]
    /\ csnd' = [csnd EXCEPT ![p] = "sleep"]
    /\ UNCHANGED <<lock, players, connections, difficulty_mult, due,
                   send_listener, recv_listener, sconn, rconn, snd, rcv,
                   player_index, rdata, snaps, hs, role, cmain, obs, clock, lpi,
                   hsgot, args, file, net, stream, arrived, rbuf, decoded,
                   written, snapvars, tickvars>>

client_sender_write_fails(p) ==
    /\ csnd[p] = "write"
    /\ Len(c2s[p]) >= MaxQueue
    /\ cbuf' = [cbuf EXCEPT ![p] = -1]
    /\ csnd' = [csnd EXCEPT ![p] = "sleep"]
    /\ UNCHANGED <<role, cmain, obs, clock, lpi, hsgot, args, file, net, stream,
                   arrived, rbuf, decoded, written, srvvars, snapvars, tickvars>>

\* one whole turn of the observer loop (read, lock, update_main_state, unlock)
observer_loop(p) ==
    /\ obs[p] = "read"
    /\ snaps[p] > 0
    /\ \E k \in 1..snaps[p] : snaps' = [snaps EXCEPT ![p] = @ - k]
    /\ UNCHANGED <<lock, players, connections, difficulty_mult, due,
                   send_listener, recv_listener, sconn, rconn, snd, rcv,
                   player_index, rdata, hs, c2s, peervars, snapvars, tickvars>>

\* one whole turn of client_sender_thread's loop (lock, make_from_state,
\* unlock, send_struct) whose write succeeds
client_sender_loop(p) ==
    /\ csnd[p] = "hswait"
    /\ Len(c2s[p]) < MaxQueue
    /\ \E v \in InputVals : c2s' = [c2s EXCEPT ![p] = Append(@, v)]
    /\ UNCHANGED <<lock, players, connections, difficulty_mult, due,
                   send_listener, recv_listener, sconn, rconn, snd, rcv,
                   player_index, rdata, snaps, hs, peervars, snapvars, tickvars>>

\* the peer process ends (window closed, killed): its threads and sockets go
peer_exit(p) ==
    /\ cmain[p] = "done"
    /\ cmain' = [cmain EXCEPT ![p] = "exit"]
    /\ obs' = [obs EXCEPT ![p] = "exit"]
    /\ csnd' = [csnd EXCEPT ![p] = "exit"]
    /\ clock' = [clock EXCEPT ![p] = Free]
    /\ hsgot' = [hsgot EXCEPT ![p] = -1]
    /\ cbuf' = [cbuf EXCEPT ![p] = -1]
    /\ snaps' = [snaps EXCEPT ![p] = 0]
    /\ UNCHANGED <<lock, players, connections, difficulty_mult, due,
                   send_listener, recv_listener, sconn, rconn, snd, rcv,
                   player_index, rdata, hs, c2s, role, lpi, args, file, net,
                   stream, arrived, rbuf, decoded, written, snapvars, tickvars>>

\* ------------------------------------------------------------ specification
\* MainState::new: one player, the host's; StatePtr::new; server_main has
\* bound both listeners
SrvInit ==
    /\ lock = Free
    /\ players = <<create_player>>
    /\ connections = 0
    /\ difficulty_mult = 1
    /\ due = 0
    /\ send_listener = "accepting"
    /\ recv_listener = "accepting"
    /\ sconn = [p \in Peers |-> "none"]
    /\ rconn = [p \in Peers |-> "none"]
    /\ snd = [p \in Peers |-> "idle"]
    /\ rcv = [p \in Peers |-> "idle"]
    /\ player_index = [p \in Peers |-> -1]
    /\ rdata = [p \in Peers |-> -1]
    /\ snaps = [p \in Peers |-> 0]
    /\ hs = [p \in Peers |-> <<>>]
    /\ c2s = [p \in Peers |-> <<>>]

PeerInit ==
    /\ role = [p \in Peers |-> "none"]
    /\ cmain = [p \in Peers |-> "idle"]
    /\ obs = [p \in Peers |-> "idle"]
    /\ csnd = [p \in Peers |-> "idle"]
    /\ clock = [p \in Peers |-> Free]
    /\ lpi = [p \in Peers |-> 0]
    /\ hsgot = [p \in Peers |-> -1]
    /\ cbuf = [p \in Peers |-> -1]
    /\ args = <<>>
    /\ file = NoFile
    /\ net = <<>>
    /\ FrameIdle

SnapIdle ==
    /\ cstate = <<>>
    /\ snap = <<>>
    /\ pre = <<>>
    /\ once = <<>>
    /\ napplied = 0
    /\ sstate = <<>>
    /\ cmsg = <<>>
    /\ smsg = <<>>

Init == SrvInit /\ PeerInit /\ SnapIdle /\ TickIdle

\* the threads of the server process
ServerNext(p) ==
    \/ time_advance
    \/ update_lock
    \/ update_tick
    \/ send_listener_accept(p)
    \/ recv_listener_accept(p)
    \/ server_sender_connected(p)
    \/ server_sender_lock(p)
    \/ server_sender_make(p)
    \/ server_sender_write(p)
    \/ server_sender_write_fails(p)
    \/ server_recver_lock(p)
    \/ server_recver_register(p)
    \/ server_recver_handshake(p)
    \/ server_recver_read(p)
    \/ server_recver_read_fails(p)
    \/ server_recver_apply_lock(p)
    \/ server_recver_apply(p)

\* a peer process as the server sees it: its loops take whole turns
PeerNext(p) ==
    \/ network_main(p)
    \/ spawn_observer_thread(p)
    \/ client_main(p)
    \/ observer_loop(p)
    \/ client_sender_loop(p)
    \/ peer_exit(p)

\* a peer process thread by thread
PeerThreadsNext(p) ==
    \/ network_main(p)
    \/ spawn_observer_thread(p)
    \/ client_main(p)
    \/ observer_read(p)
    \/ observer_lock(p)
    \/ observer_apply(p)
    \/ client_recv_handshake(p)
    \/ client_handshake_timeout(p)
    \/ client_handshake_apply(p)
    \/ client_sender_lock(p)
    \/ client_sender_make(p)
    \/ client_sender_write(p)
    \/ client_sender_write_fails(p)
    \/ peer_exit(p)

Next == \E p \in Peers : ServerNext(p) \/ PeerNext(p)

\* the server and any number of peers
Spec == Init /\ [][Next]_vars

PairNext == ServerNext(1) \/ PeerThreadsNext(1)

\* the server and one peer, every thread of both step by step
PairSpec == Init /\ [][PairNext]_vars

\* a thread that holds the world lock runs on to the end of its critical
\* section, and the game loop, which polls for due ticks, gets the lock when
\* it is free again and again; no socket operation is assumed to complete
PairFairness ==
    /\ SF_vars(update_lock)
    /\ WF_vars(update_tick)
    /\ WF_vars(server_sender_make(1))
    /\ WF_vars(server_recver_register(1))
    /\ WF_vars(server_recver_apply(1))

FairPairSpec == PairSpec /\ PairFairness

\* a client process with a decoded snapshot at hand
SnapSpecInit == SnapInit /\ SrvInit /\ PeerInit /\ TickIdle

SnapNext == apply_snapshot

\* NetFromServer::update_main_state on every client state and snapshot
SnapSpec == SnapSpecInit /\ [][SnapNext]_vars

\* ------------------------------------------- the networking of src/main.rs
\* main.rs carries its own network_main, client_main, server_main,
\* server_sender and server_recver. Its server_sender and server_recver loop
\* as those of networking.rs do (sleep, lock, build, unlock, send; read, lock,
\* apply, unlock), so their steps are the actions above; what differs is here.

\* client_main: connects to both ports, sets local_player_index = 1 and
\* spawns the receiving and the sending loop
main_rs_client_main(p) ==
    /\ role[p] = "none"
    /\ role' = [role EXCEPT ![p] = "client"]
    /\ sconn' = [sconn EXCEPT ![p] = "pending"]
    /\ rconn' = [rconn EXCEPT ![p] = "pending"]
    /\ lpi' = [lpi EXCEPT ![p] = 1]
    /\ obs' = [obs EXCEPT ![p] = "read"]
    /\ csnd' = [csnd EXCEPT ![p] = "sleep"]
    /\ cmain' = [cmain EXCEPT ![p] = "done"]
    /\ UNCHANGED <<lock, players, connections, difficulty_mult, due,
                   send_listener, recv_listener, snd, rcv, player_index, rdata,
                   snaps, hs, c2s, clock, hsgot, cbuf, args, file, net, stream,
                   arrived, rbuf, decoded, written, snapvars, tickvars>>

\* one turn of the receiving loop: recv_update reads a snapshot (and drops
\* what its BufReader read beyond it)
main_rs_client_recv(p) ==
    /\ obs[p] = "read"
    /\ snaps[p] > 0
    /\ \E k \in 1..snaps[p] : snaps' = [snaps EXCEPT ![p] = @ - k]
    /\ UNCHANGED <<lock, players, connections, difficulty_mult, due,
                   send_listener, recv_listener, sconn, rconn, snd, rcv,
                   player_index, rdata, hs, c2s, peervars, snapvars, tickvars>>

\* one turn of the sending loop: send_struct(local_input)
main_rs_client_send(p) ==
    /\ csnd[p] = "sleep"
    /\ Len(c2s[p]) < MaxQueue
    /\ \E v \in InputVals : c2s' = [c2s EXCEPT ![p] = Append(@, v)]
    /\ UNCHANGED <<lock, players, connections, difficulty_mult, due,
                   send_listener, recv_listener, sconn, rconn, snd, rcv,
                   player_index, rdata, snaps, hs, peervars, snapvars, tickvars>>

\* server_main, first spawned closure: the thread that iterates
\* send_lstener.incoming() calls server_sender(stream, ..) itself
main_rs_send_listener_accept(p) ==
    /\ send_listener = "accepting"
    /\ sconn[p] = "pending"
    /\ sconn' = [sconn EXCEPT ![p] = "accepted"]
    /\ snd' = [snd EXCEPT ![p] = "sleep"]
    /\ send_listener' = "serving"
    /\ UNCHANGED <<lock, players, connections, difficulty_mult, due,
                   recv_listener, rconn, rcv, player_index, rdata, snaps, hs,
                   c2s, peervars, snapvars, tickvars>>

\* server_main, second spawned closure: the thread that iterates
\* recv_listener.incoming() calls server_recver(stream, ..) itself
main_rs_recv_listener_accept(p) ==
    /\ recv_listener = "accepting"
    /\ rconn[p] = "pending"
    /\ rconn' = [rconn EXCEPT ![p] = "accepted"]
    /\ rcv' = [rcv EXCEPT ![p] = "start"]
    /\ recv_listener' = "serving"
    /\ UNCHANGED <<lock, players, connections, difficulty_mult, due,
                   send_listener, sconn, snd, player_index, rdata, snaps, hs,
                   c2s, peervars, snapvars, tickvars>>

\* send_struct: write_all(..).expect(..) panics on Err; the panic unwinds
\* the thread, which is the listener
main_rs_server_sender_write_panics(p) ==
    /\ snd[p] = "write"
    /\ (~alive(p) \/ snaps[p] >= MaxQueue)
    /\ snd' = [snd EXCEPT ![p] = "panicked"]
    /\ send_listener' = "panicked"
    /\ UNCHANGED <<lock, players, connections, difficulty_mult, due,
                   recv_listener, sconn, rconn, rcv, player_index, rdata, snaps,
                   hs, c2s, peervars, snapvars, tickvars>>

\* server_recver: players.push(create_player()); player_index = len() - 1;
\* no handshake follows, the loop starts
main_rs_server_recver_register(p) ==
    /\ rcv[p] = "registering"
    /\ player_index' = [player_index EXCEPT ![p] = add_player_index(players)]
    /\ players' = add_player(players)
    /\ lock' = Free
    /\ rcv' = [rcv EXCEPT ![p] = "read"]
    /\ UNCHANGED <<connections, difficulty_mult, due, send_listener,
                   recv_listener, sconn, rconn, snd, rdata, snaps, hs, c2s,
                   peervars, snapvars, tickvars>>

\* recv_update: read_until is Ok, serde_json::from_slice is Err: recv_update
\* calls itself on the same stream, with no sleep in between
main_rs_recv_update_undecodable(p) ==
    /\ rcv[p] \in {"read", "reread"}
    /\ c2s[p] # <<>>
    /\ Head(c2s[p]) = Undecodable
    /\ \E k \in 1..Len(c2s[p]) :
          c2s' = [c2s EXCEPT ![p] = SubSeq(@, k + 1, Len(@))]
    /\ rcv' = [rcv EXCEPT ![p] = "reread"]
    /\ UNCHANGED <<lock, players, connections, difficulty_mult, due,
                   send_listener, recv_listener, sconn, rconn, snd, player_index,
                   rdata, snaps, hs, peervars, snapvars, tickvars>>

\* the inner recv_update decodes a message and calls the closure
main_rs_recv_update_again(p) ==
    /\ rcv[p] = "reread"
    /\ c2s[p] # <<>>
    /\ Head(c2s[p]) \in InputVals
    /\ \E k \in 1..Len(c2s[p]) :
          /\ rdata' = [rdata EXCEPT ![p] = Head(c2s[p])]
          /\ c2s' = [c2s EXCEPT ![p] = SubSeq(@, k + 1, Len(@))]
    /\ rcv' = [rcv EXCEPT ![p] = "got"]
    /\ UNCHANGED <<lock, players, connections, difficulty_mult, due,
                   send_listener, recv_listener, sconn, rconn, snd, player_index,
                   snaps, hs, peervars, snapvars, tickvars>>

\* the inner recv_update's read_until is Err (read timeout): every
\* recv_update returns and server_recver's loop sleeps
main_rs_recv_update_again_fails(p) ==
    /\ rcv[p] = "reread"
    /\ (c2s[p] = <<>> \/ ~alive(p))
    /\ rcv' = [rcv EXCEPT ![p] = "read"]
    /\ UNCHANGED <<lock, players, connections, difficulty_mult, due,
                   send_listener, recv_listener, sconn, rconn, snd, player_index,
                   rdata, snaps, hs, c2s, peervars, snapvars, tickvars>>

MainRsNext ==
    \E p \in Peers :
        \/ time_advance
        \/ update_lock
        \/ update_tick
        \/ main_rs_client_main(p)
        \/ main_rs_client_recv(p)
        \/ main_rs_client_send(p)
        \/ peer_exit(p)
        \/ main_rs_send_listener_accept(p)
        \/ server_sender_lock(p)
        \/ server_sender_make(p)
        \/ server_sender_write(p)
        \/ main_rs_server_sender_write_panics(p)
        \/ main_rs_recv_listener_accept(p)
        \/ server_recver_lock(p)
        \/ main_rs_server_recver_register(p)
        \/ server_recver_read(p)
        \/ server_recver_read_fails(p)
        \/ peer_sends_undecodable(p)
        \/ main_rs_recv_update_undecodable(p)
        \/ main_rs_recv_update_again(p)
        \/ main_rs_recv_update_again_fails(p)
        \/ server_recver_apply_lock(p)
        \/ server_recver_apply(p)

\* the server and the clients built from main.rs alone
MainRsSpec == Init /\ [][MainRsNext]_vars

\* the server of networking.rs and one peer whose input stream may carry
\* bytes that do not decode
DecodeNext ==
    \/ ServerNext(1)
    \/ PeerNext(1)
    \/ peer_sends_undecodable(1)
    \/ server_recver_read_undecodable(1)

DecodeSpec == Init /\ [][DecodeNext]_vars

\* ------------------------------------------------------- process startup
\* main: StatePtr::new, then thread::spawn(network_main), then event::run.
\* At this point the network thread has not bound its listeners yet.
StartupInit ==
    /\ lock = Free
    /\ players = <<create_player>>
    /\ connections = 0
    /\ difficulty_mult = 1
    /\ due = 0
    /\ send_listener = "unbound"
    /\ recv_listener = "unbound"
    /\ sconn = [p \in Peers |-> "none"]
    /\ rconn = [p \in Peers |-> "none"]
    /\ snd = [p \in Peers |-> "idle"]
    /\ rcv = [p \in Peers |-> "idle"]
    /\ player_index = [p \in Peers |-> -1]
    /\ rdata = [p \in Peers |-> -1]
    /\ snaps = [p \in Peers |-> 0]
    /\ hs = [p \in Peers |-> <<>>]
    /\ c2s = [p \in Peers |-> <<>>]
    /\ PeerInit
    /\ SnapIdle
    /\ TickIdle

\* server_main: both TcpListener::bind calls return Ok, the two listener
\* threads are spawned
server_main_bind ==
    /\ send_listener = "unbound"
    /\ send_listener' = "accepting"
    /\ recv_listener' = "accepting"
    /\ UNCHANGED <<lock, players, connections, difficulty_mult, due, sconn,
                   rconn, snd, rcv, player_index, rdata, snaps, hs, c2s,
                   peervars, snapvars, tickvars>>

\* server_main: a bind returns Err, `?` returns it to network_main, whose
\* expect("Server thread paniced.") panics: the thread main spawned for
\* network_main unwinds. The first bind may fail, or the second one, which
\* drops the listener bound first.
server_main_bind_fails ==
    /\ send_listener = "unbound"
    /\ \E first \in BOOLEAN :
          /\ send_listener' = IF first THEN "failed" ELSE "dropped"
          /\ recv_listener' = IF first THEN "unbound" ELSE "failed"
    /\ UNCHANGED <<lock, players, connections, difficulty_mult, due, sconn,
                   rconn, snd, rcv, player_index, rdata, snaps, hs, c2s,
                   peervars, snapvars, tickvars>>

\* spawn_observer_thread: TcpStream::connect returns Err (nothing listens),
\* `?` returns it to network_main, whose expect panics in the peer's
\* network thread
connect_refused(p) ==
    /\ cmain[p] = "connect_snap"
    /\ send_listener \in {"failed", "dropped"}
    /\ cmain' = [cmain EXCEPT ![p] = "refused"]
    /\ UNCHANGED <<role, obs, csnd, clock, lpi, hsgot, cbuf, args, file, net,
                   stream, arrived, rbuf, decoded, written, srvvars, snapvars,
                   tickvars>>

StartupNext ==
    \/ server_main_bind
    \/ server_main_bind_fails
    \/ time_advance
    \/ update_lock
    \/ update_tick
    \/ network_main(1)
    \/ connect_refused(1)
    \/ (send_listener = "accepting" /\ (ServerNext(1) \/ PeerNext(1)))

\* the server process from the start of main, and one peer
StartupSpec == StartupInit /\ [][StartupNext]_vars

\* --------------------------------------------------------- a poisoned lock
\* std::sync::Mutex: a guard dropped while its thread panics poisons the
\* mutex; every later lock() returns Err(PoisonError)
Poisoned == <<"poisoned", 0>>

\* StatePtr::update: the tick panics with the guard alive (update_ui unwraps
\* graphics::Text::new at main.rs 600 and 604); unwinding drops the guard
update_tick_panics ==
    /\ lock = Sim
    /\ lock' = Poisoned
    /\ UNCHANGED <<players, connections, difficulty_mult, due, send_listener,
                   recv_listener, sconn, rconn, snd, rcv, player_index, rdata,
                   snaps, hs, c2s, peervars, snapvars, tickvars>>

\* the panic has unwound the main thread: main returns and the process
\* ends, all its threads with it
process_exit ==
    /\ lock = Poisoned
    /\ send_listener # "exit"
    /\ send_listener' = "exit"
    /\ recv_listener' = "exit"
    /\ snd' = [p \in Peers |-> "exit"]
    /\ rcv' = [p \in Peers |-> "exit"]
    /\ UNCHANGED <<lock, players, connections, difficulty_mult, due, sconn,
                   rconn, player_index, rdata, snaps, hs, c2s, peervars,
                   snapvars, tickvars>>

\* the spawned closure: state.lock().unwrap() panics
server_sender_connected_poisoned(p) ==
    /\ snd[p] = "start"
    /\ lock = Poisoned
    /\ snd' = [snd EXCEPT ![p] = "panicked"]
    /\ UNCHANGED <<lock, players, connections, difficulty_mult, due,
                   send_listener, recv_listener, sconn, rconn, rcv, player_index,
                   rdata, snaps, hs, c2s, peervars, snapvars, tickvars>>

\* server_sender: stateptr.state.lock().unwrap() panics
server_sender_lock_poisoned(p) ==
    /\ snd[p] = "sleep"
    /\ lock = Poisoned
    /\ snd' = [snd EXCEPT ![p] = "panicked"]
    /\ UNCHANGED <<lock, players, connections, difficulty_mult, due,
                   send_listener, recv_listener, sconn, rconn, rcv, player_index,
                   rdata, snaps, hs, c2s, peervars, snapvars, tickvars>>

\* server_recver, registration block: stateptr.state.lock().unwrap() panics
server_recver_lock_poisoned(p) ==
    /\ rcv[p] = "start"
    /\ lock = Poisoned
    /\ rcv' = [rcv EXCEPT ![p] = "panicked"]
    /\ UNCHANGED <<lock, players, connections, difficulty_mult, due,
                   send_listener, recv_listener, sconn, rconn, snd, player_index,
                   rdata, snaps, hs, c2s, peervars, snapvars, tickvars>>

\* server_recver, the closure: `match stateptr.state.lock()` takes the arm
\* `Err(_) => {}`; the input is dropped and the loop takes its next turn
server_recver_apply_lock_poisoned(p) ==
    /\ rcv[p] = "got"
    /\ lock = Poisoned
    /\ rdata' = [rdata EXCEPT ![p] = -1]
    /\ rcv' = [rcv EXCEPT ![p] = "read"]
    /\ UNCHANGED <<lock, players, connections, difficulty_mult, due,
                   send_listener, recv_listener, sconn, rconn, snd, player_index,
                   snaps, hs, c2s, peervars, snapvars, tickvars>>

PoisonNext ==
    \/ ServerNext(1)
    \/ PeerNext(1)
    \/ update_tick_panics
    \/ process_exit
    \/ server_sender_connected_poisoned(1)
    \/ server_sender_lock_poisoned(1)
    \/ server_recver_lock_poisoned(1)
    \/ server_recver_apply_lock_poisoned(1)

\* the server, one peer, and a tick that may panic
PoisonSpec == Init /\ [][PoisonNext]_vars

\* ------------------------------------------ a snapshot, built and applied
\* NetFromServer::make_from_state: the players cloned and pre_serialized,
\* the rocks and then the shots cloned into actors and pre_serialized
make_from_state(state) ==
    [players |-> [i \in DOMAIN state.players |->
                     [state.players[i] EXCEPT !.actor = pre_serialize(@)]],
     actors |-> [i \in DOMAIN (state.rocks \o state.shots) |->
                    pre_serialize((state.rocks \o state.shots)[i])],
     score |-> state.score,
     server_time |-> state.curr_time]

\* an Actor through bincode: pos and velocity are #[serde(skip, default =
\* "na::zero")], every other field is written and read as it is
bincode_actor(a) == [a EXCEPT !.pos = Zero, !.velocity = Zero]
\* a NetFromServer through send_struct and recv_update
bincode_snapshot(s) ==
    [s EXCEPT !.players = [i \in DOMAIN @ |-> [@[i] EXCEPT !.actor = bincode_actor(@)]],
              !.actors = [i \in DOMAIN @ |-> bincode_actor(@[i])]]

NoSnapshot == [players |-> <<>>, actors |-> <<>>, score |-> 0, server_time |-> 0]

\* server states: the host's player and perhaps a client's, rocks and shots
\* in flight
MovingActor(tag, pos, vel) == [create_actor(tag) EXCEPT !.pos = pos, !.velocity = vel]
ServerStates ==
    {[players |-> [i \in DOMAIN ps |->
                      [actor |-> MovingActor("Player", ps[i], Zero),
                       input |-> i - 1, last_shot_at |-> i]],
      rocks |-> [i \in DOMAIN rs |-> MovingActor("Rock", rs[i], <<0, -1>>)],
      shots |-> [i \in DOMAIN ss |-> MovingActor("Shot", ss[i], <<i, 7>>)],
      score |-> sc, curr_time |-> 4, local_player_index |-> 0] :
        ps \in SeqsUpTo(Vecs, 1, MaxRoster),
        rs \in SeqsUpTo({<<9, 9>>, <<-3, 8>>}, 0, MaxActors),
        ss \in SeqsUpTo({<<6, 1>>, <<-3, 8>>}, 0, MaxActors),
        sc \in {0, 7}}

\* an observer (local_player_index None) that has its own player and what
\* earlier snapshots of the same server left
ObserverStates ==
    {[players |-> ps,
      rocks |-> IF stale THEN <<LiveActor("Rock", <<9, 9>>)>> ELSE <<>>,
      shots |-> IF stale THEN <<LiveActor("Shot", <<8, 8>>)>> ELSE <<>>,
      score |-> IF stale THEN 5 ELSE 0,
      curr_time |-> IF stale THEN 2 ELSE 0,
      local_player_index |-> -1] :
        ps \in SeqsUpTo(ClientPlayers, 1, MaxRoster), stale \in BOOLEAN}

RoundInit ==
    /\ SrvInit /\ PeerInit /\ TickIdle
    /\ sstate \in ServerStates
    /\ cstate \in {o \in ObserverStates : Len(o.players) <= Len(sstate.players)}
    /\ snap = NoSnapshot
    /\ pre = cstate
    /\ once = cstate
    /\ napplied = 0
    /\ cmsg = <<>>
    /\ smsg = <<>>

\* server_sender: make_from_state under the lock, send_struct; the observer's
\* recv_update decodes it
round_make ==
    /\ snap = NoSnapshot
    /\ snap' = bincode_snapshot(make_from_state(sstate))
    /\ UNCHANGED <<cstate, pre, once, napplied, sstate, cmsg, smsg, srvvars,
                   peervars, tickvars>>

\* the observer's closure applies what it decoded
round_apply ==
    /\ snap # NoSnapshot
    /\ apply_snapshot

RoundNext == round_make \/ round_apply

RoundSpec == RoundInit /\ [][RoundNext]_vars

\* ------------------------------------- the time shift of a snapshot in f32
\* client times and server times around 16 s (2^24 units of 2^-20 s), where
\* the spacing of the f32 values goes from one unit to two, and small ones
ShiftTimes == {Pow2(MantissaBits) - 3, Pow2(MantissaBits) + 8, 40}
ShiftShotTimes == {Pow2(MantissaBits) - 4, Pow2(MantissaBits) - 10, 30}
ShiftServerTimes == {Pow2(MantissaBits) + 2, Pow2(MantissaBits) - 1, 44}
ShiftWireShotTimes == {Pow2(MantissaBits) - 6, 20}

ShiftStates ==
    UNION {
    {[players |-> [i \in DOMAIN ls |->
                      [actor |-> LiveActor("Player", Zero), input |-> 0,
                       last_shot_at |-> ls[i]]],
      rocks |-> <<>>, shots |-> <<>>, score |-> 0,
      curr_time |-> t,
      local_player_index |-> l] :
        ls \in {s \in SeqsUpTo(ShiftShotTimes, 1, MaxRoster) :
                   \A i \in DOMAIN s : s[i] <= t},
        l \in -1..(MaxRoster - 1)} : t \in ShiftTimes}

ShiftSnapshots ==
    UNION {
    {[players |-> [i \in DOMAIN ls |->
                      [actor |-> WireActor("Player", <<1, 7>>, <<3, 4>>),
                       input |-> 1, last_shot_at |-> ls[i]]],
      actors |-> <<>>, score |-> 3,
      server_time |-> t] :
        ls \in {s \in SeqsUpTo(ShiftWireShotTimes, 0, MaxRoster) :
                   \A i \in DOMAIN s : s[i] <= t}} : t \in ShiftServerTimes}

ShiftInit ==
    /\ SrvInit /\ PeerInit /\ TickIdle
    /\ cstate \in ShiftStates
    /\ snap \in ShiftSnapshots
    /\ pre = cstate
    /\ once = cstate
    /\ napplied = 0
    /\ sstate = <<>>
    /\ cmsg = <<>>
    /\ smsg = <<>>

ShiftSpec == ShiftInit /\ [][apply_snapshot]_vars

\* ------------------------------------------------ the tick, step by step
\* worlds between two ticks: players where their input has moved them, shots
\* flying up at the clamped speed, rocks flying down
PlayerAt == {<<540, -300>>, <<0, -24>>, <<0, -21>>}
SecondPlayerAt == {<<3, -21>>}
ShotAt == {<<0, -11>>, <<-200, 0>>, <<0, 535>>}
RockAt == {<<0, 1>>, <<5, 1>>, <<0, 15>>, <<0, -540>>}
PlayerOn(pos) == create_player_from_actor([create_player_actor EXCEPT !.pos = pos])
ShotOn(pos) ==
    [create_shot EXCEPT !.pos = pos, !.velocity = <<0, MAX_PHYSICS_VEL>>,
                        !.life = SHOT_LIFE - seconds]
RockOn(pos) == [create_rock EXCEPT !.pos = pos, !.velocity = <<0, -1>>]
Scores == {5}
TickInit ==
    /\ SrvInit /\ PeerInit /\ SnapIdle
    /\ \E p1 \in PlayerAt, more \in SeqsUpTo(SecondPlayerAt, 0, 1),
          ss \in SeqsUpTo(ShotAt, 0, 2), rs \in SeqsUpTo(RockAt, 0, 2),
          sc \in Scores :
          world = [players |-> <<PlayerOn(p1)>> \o [i \in DOMAIN more |-> PlayerOn(more[i])],
                   shots |-> [i \in DOMAIN ss |-> ShotOn(ss[i])],
                   rocks |-> [i \in DOMAIN rs |-> RockOn(rs[i])],
                   score |-> sc, curr_time |-> 0, start_time |-> 0,
                   local_input |-> InputDefault]
    /\ tick = "idle"
    /\ ctxtime = 0
    /\ ticks_done = 0
    /\ passin = NoWorld

\* EventHandler::key_down_event / key_up_event set local_input between ticks
LocalInputs == {InputDefault, InputState(FALSE, FALSE, FALSE, TRUE, FALSE),
                InputState(FALSE, FALSE, FALSE, FALSE, TRUE)}
key_event(input) ==
    /\ tick = "idle"
    /\ ticks_done < MaxTicks
    /\ world.local_input # input
    /\ world' = [world EXCEPT !.local_input = input]
    /\ UNCHANGED <<tick, ctxtime, ticks_done, passin, srvvars, peervars, snapvars>>

\* a ClientInput applied by server_recver between ticks
RemoteInputs == {InputDefault, InputState(FALSE, FALSE, FALSE, FALSE, TRUE)}
remote_input(k, input) ==
    /\ tick = "idle"
    /\ ticks_done < MaxTicks
    /\ k \in 2..Len(world.players)
    /\ world.players[k].input # input
    /\ world' = [world EXCEPT !.players[k].input = input]
    /\ UNCHANGED <<tick, ctxtime, ticks_done, passin, srvvars, peervars, snapvars>>

\* StatePtr::update: the time the frame took, curr_time, and the tick up to
\* the collision pass
Elapsed == {1, PLAYER_SHOT_TIME}
tick_integrate(e) ==
    /\ tick = "idle"
    /\ ticks_done < MaxTicks
    /\ LET now == ctxtime + e
           w == integrate([world EXCEPT !.curr_time = get_level_time(now, world)],
                          seconds)
       IN  /\ Len(w.shots) <= MaxShots
           /\ ctxtime' = now
           /\ world' = w
           /\ passin' = w
    /\ tick' = "moved"
    /\ UNCHANGED <<ticks_done, srvvars, peervars, snapvars>>

tick_handle_collisions ==
    /\ tick = "moved"
    /\ world' = handle_collisions(world, ctxtime)
    /\ tick' = "collided"
    /\ UNCHANGED <<ctxtime, ticks_done, passin, srvvars, peervars, snapvars>>

tick_clear_dead_stuff ==
    /\ tick = "collided"
    /\ world' = clear_dead_stuff(world)
    /\ tick' = "swept"
    /\ UNCHANGED <<ctxtime, ticks_done, passin, srvvars, peervars, snapvars>>

\* spawn_rocks and update_ui, which ends the tick
tick_spawn_rocks(new) ==
    /\ tick = "swept"
    /\ Len(new) <= spawn_loops
    /\ Len(world.rocks) + Len(new) <= MaxRocks
    /\ world' = spawn_rocks(world, new)
    /\ tick' = "idle"
    /\ ticks_done' = ticks_done + 1
    /\ UNCHANGED <<ctxtime, passin, srvvars, peervars, snapvars>>

TickNext ==
    \/ \E input \in LocalInputs : key_event(input)
    \/ \E k \in 1..MaxRoster, input \in RemoteInputs : remote_input(k, input)
    \/ \E e \in Elapsed : tick_integrate(e)
    \/ tick_handle_collisions
    \/ tick_clear_dead_stuff
    \/ \E new \in SeqsUpTo({spawned_rock(x, v) : x \in spawn_x, v \in spawn_velocity},
                           0, spawn_loops) : tick_spawn_rocks(new)

TickSpec == TickInit /\ [][TickNext]_vars

\* ------------------------------------------------- the tick of a client
\* a variant to compare with: rocks and shots are left to the snapshots
real_update_client_players_only(w, dt) ==
    LET ps1 == IF Len(w.players) > w.local_player_index
               THEN [w.players EXCEPT ![w.local_player_index + 1].input = w.local_input]
               ELSE w.players
        ps2 == [i \in DOMAIN ps1 |->
                   [ps1[i] EXCEPT
                       !.actor = wrap_actor_position(
                           update_actor_position(
                               player_handle_input(@, ps1[i].input, dt), dt),
                           screen_width, screen_height),
                       !.last_shot_at =
                           IF ps1[i].input.fire /\ @ <= w.curr_time - PLAYER_SHOT_TIME
                           THEN w.curr_time ELSE @]]
    IN  [w EXCEPT !.players = ps2]

\* real_update_client: the local input, the players' movement, the shot
\* clock (no shot is made), then the positions of the shots and the rocks
real_update_client(w, dt) ==
    LET ps1 == IF Len(w.players) > w.local_player_index
               THEN [w.players EXCEPT ![w.local_player_index + 1].input = w.local_input]
               ELSE w.players
        ps2 == [i \in DOMAIN ps1 |->
                   [ps1[i] EXCEPT
                       !.actor = wrap_actor_position(
                           update_actor_position(
                               player_handle_input(@, ps1[i].input, dt), dt),
                           screen_width, screen_height),
                       !.last_shot_at =
                           IF ps1[i].input.fire /\ @ <= w.curr_time - PLAYER_SHOT_TIME
                           THEN w.curr_time ELSE @]]
    IN  [w EXCEPT !.players = ps2,
                  !.shots = [i \in DOMAIN @ |-> update_actor_position(@[i], dt)],
                  !.rocks = [i \in DOMAIN @ |-> update_actor_position(@[i], dt)]]

\* NetFromServer::update_main_state of main.rs: the score, and the three
\* lists refilled from the actors by tag
MainRs_update_main_state(self, w) ==
    LET of(tag) == SelectSeq(self.actors, LAMBDA a : a.tag = tag)
    IN  [w EXCEPT !.score = self.score,
                  !.players = [i \in DOMAIN of("Player") |->
                                  create_player_from_actor(of("Player")[i])],
                  !.rocks = of("Rock"),
                  !.shots = of("Shot")]

\* a client with index 1 between two snapshots
ClientTickInit ==
    /\ SrvInit /\ PeerInit /\ SnapIdle
    /\ \E p2 \in PlayerAt, ss \in SeqsUpTo(ShotAt, 0, 2),
          rs \in SeqsUpTo(RockAt, 0, 2), sc \in Scores :
          world = [players |-> <<PlayerOn(<<300, -300>>), PlayerOn(p2)>>,
                   shots |-> [i \in DOMAIN ss |-> ShotOn(ss[i])],
                   rocks |-> [i \in DOMAIN rs |-> RockOn(rs[i])],
                   score |-> sc, curr_time |-> PLAYER_SHOT_TIME, start_time |-> 0,
                   local_input |-> InputDefault,
                   local_player_index |-> 1]
    /\ tick = "idle"
    /\ ctxtime = 0
    /\ ticks_done = 0
    /\ passin = NoWorld

\* EventHandler::update on a client: curr_time += seconds, real_update_client
client_tick ==
    /\ tick = "idle"
    /\ ticks_done < MaxTicks
    /\ passin' = world
    /\ world' = real_update_client([world EXCEPT !.curr_time = @ + 1], seconds)
    /\ ticks_done' = ticks_done + 1
    /\ UNCHANGED <<tick, ctxtime, srvvars, peervars, snapvars>>

\* the receiving thread applies a snapshot between two ticks
client_snapshot(self) ==
    /\ tick = "idle"
    /\ ticks_done < MaxTicks
    /\ MainRs_update_main_state(self, world) # world
    /\ passin' = world
    /\ world' = MainRs_update_main_state(self, world)
    /\ UNCHANGED <<tick, ctxtime, ticks_done, srvvars, peervars, snapvars>>

ClientTickSnapshots ==
    {[actors |-> <<PlayerOn(<<300, -300>>).actor, PlayerOn(p2).actor>> \o rs,
      score |-> sc] :
        p2 \in {<<0, -24>>}, rs \in SeqsUpTo({RockOn(<<0, 15>>)}, 0, 1),
        sc \in {5, 6}}

ClientTickNext ==
    \/ \E input \in LocalInputs : key_event(input)
    \/ client_tick
    \/ \E self \in ClientTickSnapshots : client_snapshot(self)

ClientTickSpec == ClientTickInit /\ [][ClientTickNext]_vars

\* --------------------------------------------------- network_main, start
MaxArgs == 3
MaxTransfer == 2
ArgValues == {<<"s">>, <<"s", "p">>, <<"1", "s">>, <<>>}
ArgLists == SeqsUpTo(ArgValues, 0, MaxArgs)
Files ==
    {[state |-> "ok", data |-> [NetSetup_default EXCEPT !.transfer_ms = t],
      creatable |-> c, writable |-> w] :
        t \in 0..MaxTransfer, c \in BOOLEAN, w \in BOOLEAN}
    \cup {[NoFile EXCEPT !.state = st, !.creatable = c, !.writable = w] :
             st \in {"absent", "unparsable"}, c \in BOOLEAN, w \in BOOLEAN}

NetMainInit ==
    /\ SrvInit /\ SnapIdle /\ TickIdle
    /\ role = [p \in Peers |-> "none"]
    /\ cmain = [p \in Peers |-> "idle"]
    /\ obs = [p \in Peers |-> "idle"]
    /\ csnd = [p \in Peers |-> "idle"]
    /\ clock = [p \in Peers |-> Free]
    /\ lpi = [p \in Peers |-> 0]
    /\ hsgot = [p \in Peers |-> -1]
    /\ cbuf = [p \in Peers |-> -1]
    /\ args \in ArgLists
    /\ file \in Files
    /\ net = <<>>
    /\ FrameIdle

\* network_main: NetSetup::from_file(NET_FILENAME).unwrap_or_else(|_|
\* NetSetup::write_default(NET_FILENAME))
network_main_load ==
    /\ net = <<>>
    /\ LET r == NetSetup_from_file(file)
           w == NetSetup_write_default(file)
       IN  IF r.ok
           THEN net' = <<r.data>> /\ file' = file
           ELSE net' = <<w.net>> /\ file' = w.file
    /\ UNCHANGED <<role, cmain, obs, csnd, clock, lpi, hsgot, cbuf, args, stream,
                   arrived, rbuf, decoded, written, srvvars, snapvars, tickvars>>

\* network_main: the branch taken; an observer first sets
\* local_player_index = None
network_main_start ==
    /\ net # <<>>
    /\ role[1] = "none"
    /\ LET r == network_main_role(Len(args), Len(args) >= 1 /\ starts_with_s(args[1]))
       IN  /\ role' = [role EXCEPT ![1] = r]
           /\ lpi' = [lpi EXCEPT ![1] = IF r = "observer" THEN -1 ELSE @]
           /\ cmain' = [cmain EXCEPT ![1] = IF r = "server" THEN "idle" ELSE "connect_snap"]
    /\ UNCHANGED <<obs, csnd, clock, hsgot, cbuf, args, file, net, stream,
                   arrived, rbuf, decoded, written, srvvars, snapvars, tickvars>>

NetMainNext == network_main_load \/ network_main_start

NetMainSpec == NetMainInit /\ [][NetMainNext]_vars

\* --------------------------------------------- wrap_actor_position, alone
MaxWraps == 2
\* coordinates inside, on the edges, beyond them by up to one extent, and
\* one pixel further
WrapCoords ==
    LET half == screen_width \div 2
    IN  {0, half - 1, half, half + 1, half + screen_width,
         half + screen_width + 1,
         1 - half, -half, -half - 1, -half - screen_width,
         -half - screen_width - 1}

WrapInit ==
    /\ SrvInit /\ PeerInit
    /\ \E x \in WrapCoords, y \in WrapCoords :
          world = [NoWorld EXCEPT !.players = <<PlayerOn(<<x, y>>)>>]
    /\ tick = "idle"
    /\ ctxtime = 0
    /\ ticks_done = 0
    /\ passin = world
    /\ pre = world
    /\ cstate = <<>>
    /\ snap = <<>>
    /\ once = world
    /\ napplied = 0
    /\ sstate = <<>>
    /\ cmsg = <<>>
    /\ smsg = <<>>

\* wrap_actor_position(player, screen_width, screen_height), as the tick
\* calls it for every player; pre is the player at the start and once the
\* player after the first call
wrap_step ==
    /\ ticks_done < MaxWraps
    /\ passin' = world
    /\ world' = [world EXCEPT !.players =
                    [i \in DOMAIN @ |->
                        [@[i] EXCEPT !.actor =
                            wrap_actor_position(@, screen_width, screen_height)]]]
    /\ once' = IF ticks_done = 0 THEN world' ELSE once
    /\ ticks_done' = ticks_done + 1
    /\ UNCHANGED <<cstate, snap, pre, napplied, sstate, cmsg, smsg, tick,
                   ctxtime, srvvars, peervars>>

WrapSpec == WrapInit /\ [][wrap_step]_vars

\* ------------------------------------------- one stream, byte by byte
MaxFrames == 3
FrameLen == 2
\* the o-th byte of the n-th message written
byte(n, o) == n * 10 + o
\* bincode::serialize: a fixed layout, no length prefix, no delimiter
bincode_serialize(n) == [o \in 1..FrameLen |-> byte(n, o)]

FrameInit ==
    /\ SrvInit /\ SnapIdle /\ TickIdle
    /\ role = [p \in Peers |-> "none"]
    /\ cmain = [p \in Peers |-> "idle"]
    /\ obs = [p \in Peers |-> "idle"]
    /\ csnd = [p \in Peers |-> "idle"]
    /\ clock = [p \in Peers |-> Free]
    /\ lpi = [p \in Peers |-> 0]
    /\ hsgot = [p \in Peers |-> -1]
    /\ cbuf = [p \in Peers |-> -1]
    /\ args = <<>>
    /\ file = NoFile
    /\ net = <<>>
    /\ FrameIdle

\* send_struct: stream.write_all(&bin[..])
send_struct ==
    /\ written < MaxFrames
    /\ stream' = stream \o bincode_serialize(written + 1)
    /\ written' = written + 1
    /\ UNCHANGED <<role, cmain, obs, csnd, clock, lpi, hsgot, cbuf, args, file,
                   net, arrived, rbuf, decoded, srvvars, snapvars, tickvars>>

\* the network delivers the next k bytes, in segments of its own choosing
stream_arrive(k) ==
    /\ arrived + k <= Len(stream)
    /\ arrived' = arrived + k
    /\ UNCHANGED <<role, cmain, obs, csnd, clock, lpi, hsgot, cbuf, args, file,
                   net, stream, rbuf, decoded, written, srvvars, snapvars,
                   tickvars>>

\* a variant to compare with: the reader takes from the stream only the
\* bytes of the message it decodes
BufReader_fill_exact(k) == FrameLen - Len(rbuf)
\* BufReader::fill_buf: one read of the stream into the 8 KiB buffer returns
\* all k bytes that have arrived
BufReader_fill(k) == k

\* recv_update, deserialize_from: the decoder needs more bytes and the
\* BufReader, empty, reads the stream
recv_update_fill ==
    /\ Len(rbuf) < FrameLen
    /\ arrived >= 1
    /\ LET k == BufReader_fill(arrived)
       IN  /\ k <= arrived
           /\ rbuf' = rbuf \o SubSeq(stream, 1, k)
           /\ stream' = SubSeq(stream, k + 1, Len(stream))
           /\ arrived' = arrived - k
    /\ UNCHANGED <<role, cmain, obs, csnd, clock, lpi, hsgot, cbuf, args, file,
                   net, decoded, written, srvvars, snapvars, tickvars>>

\* recv_update: deserialize_from returns Ok with the message decoded from the
\* first bytes, the closure runs, and read_buf is dropped with what it holds
recv_update_ok ==
    /\ Len(rbuf) >= FrameLen
    /\ decoded' = Append(decoded, SubSeq(rbuf, 1, FrameLen))
    /\ rbuf' = <<>>
    /\ UNCHANGED <<role, cmain, obs, csnd, clock, lpi, hsgot, cbuf, args, file,
                   net, stream, arrived, written, srvvars, snapvars, tickvars>>

\* recv_update: the read times out in the middle of a message:
\* deserialize_from returns Err and read_buf is dropped with what it holds
recv_update_err ==
    /\ rbuf # <<>>
    /\ Len(rbuf) < FrameLen
    /\ arrived = 0
    /\ rbuf' = <<>>
    /\ UNCHANGED <<role, cmain, obs, csnd, clock, lpi, hsgot, cbuf, args, file,
                   net, stream, arrived, decoded, written, srvvars, snapvars,
                   tickvars>>

FrameNext ==
    \/ send_struct
    \/ \E k \in 1..FrameLen : stream_arrive(k)
    \/ recv_update_fill
    \/ recv_update_ok
    \/ recv_update_err

FrameSpec == FrameInit /\ [][FrameNext]_vars

\* ------------------------------- main.rs: a process started as a client
MaxStartTicks == 2
\* MainState::is_server
is_server(w) == w.local_player_index = 0

\* real_update_server, whole: the tick of TickSpec in one step
MainState_real_update_server(w, now, new) ==
    spawn_rocks(
        clear_dead_stuff(
            handle_collisions(
                integrate([w EXCEPT !.curr_time = get_level_time(now, w)], seconds),
                now)),
        new)

\* MainState::new, in a process started with a mode and an address
ClientStartInit ==
    /\ SrvInit /\ SnapIdle
    /\ role = [p \in Peers |-> IF p = 1 THEN "client" ELSE "none"]
    /\ cmain = [p \in Peers |-> IF p = 1 THEN "connect_snap" ELSE "idle"]
    /\ obs = [p \in Peers |-> "idle"]
    /\ csnd = [p \in Peers |-> "idle"]
    /\ clock = [p \in Peers |-> Free]
    /\ lpi = [p \in Peers |-> 0]
    /\ hsgot = [p \in Peers |-> -1]
    /\ cbuf = [p \in Peers |-> -1]
    /\ args = <<<<"c">>, <<"h">>>>
    /\ file = NoFile
    /\ net = <<>>
    /\ FrameIdle
    /\ world = [players |-> <<PlayerOn(Zero)>>, shots |-> <<>>, rocks |-> <<>>,
                score |-> 0, curr_time |-> 0, start_time |-> 0,
                local_input |-> InputDefault, local_player_index |-> 0]
    /\ tick = "idle"
    /\ ctxtime = 0
    /\ ticks_done = 0
    /\ passin = NoWorld

\* client_main: TcpStream::connect(<addr>:9942)?
client_main_connect_snap(ok) ==
    /\ cmain[1] = "connect_snap"
    /\ cmain' = [cmain EXCEPT ![1] = IF ok THEN "connect_input" ELSE "failed"]
    /\ UNCHANGED <<role, obs, csnd, clock, lpi, hsgot, cbuf, args, file, net,
                   stream, arrived, rbuf, decoded, written, srvvars, snapvars,
                   tickvars>>

\* client_main: TcpStream::connect(<addr>:9949)?, then, under the lock,
\* local_player_index = 1; a failed connect returns Err and network_main's
\* expect ends the network thread
client_main_connect_input(ok) ==
    /\ cmain[1] = "connect_input"
    /\ cmain' = [cmain EXCEPT ![1] = IF ok THEN "done" ELSE "failed"]
    /\ world' = IF ok THEN [world EXCEPT !.local_player_index = 1] ELSE world
    /\ UNCHANGED <<role, obs, csnd, clock, lpi, hsgot, cbuf, args, file, net,
                   stream, arrived, rbuf, decoded, written, tick, ctxtime,
                   ticks_done, passin, srvvars, snapvars>>

\* StatePtr::update, one turn of its loop under the lock
client_process_update(e, new) ==
    /\ ticks_done < MaxStartTicks
    /\ Len(world.rocks) + Len(new) <= MaxRocks
    /\ passin' = world
    /\ IF is_server(world)
       THEN /\ ctxtime' = ctxtime + e
            /\ world' = MainState_real_update_server(world, ctxtime + e, new)
       ELSE /\ ctxtime' = ctxtime + e
            /\ world' = real_update_client([world EXCEPT !.curr_time = @ + 1], seconds)
    /\ ticks_done' = ticks_done + 1
    /\ UNCHANGED <<tick, srvvars, peervars, snapvars>>

ClientStartNext ==
    \/ \E ok \in BOOLEAN : client_main_connect_snap(ok)
    \/ \E ok \in BOOLEAN : client_main_connect_input(ok)
    \/ \E input \in LocalInputs : key_event(input)
    \/ \E e \in Elapsed,
          new \in SeqsUpTo({spawned_rock(x, v) : x \in spawn_x, v \in spawn_velocity},
                           0, spawn_loops) : client_process_update(e, new)

ClientStartSpec == ClientStartInit /\ [][ClientStartNext]_vars

\* ------------------------- one session: server ticks, snapshots, client
MaxClock == 6
MaxApplied == 2
\* a server two ticks into its session with a client registered, and the
\* client, which has just started
SessionInit ==
    /\ SrvInit /\ PeerInit /\ TickIdle
    /\ sstate \in {s \in ServerStates :
                      Len(s.players) = 2 /\ s.rocks = <<>> /\ s.shots = <<>>}
    /\ cstate \in {[o EXCEPT !.local_player_index = l] :
                      o \in {c \in ObserverStates : Len(c.players) = 1},
                      l \in {-1, 1}}
    /\ snap = NoSnapshot
    /\ pre = cstate
    /\ once = cstate
    /\ napplied = 0
    /\ cmsg = <<>>
    /\ smsg = <<>>

\* StatePtr::update on the server: curr_time = get_level_time
session_server_tick ==
    /\ sstate.curr_time < MaxClock
    /\ sstate' = [sstate EXCEPT !.curr_time = @ + 1]
    /\ UNCHANGED <<cstate, snap, pre, once, napplied, cmsg, smsg, srvvars,
                   peervars, tickvars>>

\* server_sender: make_from_state under the lock, send_struct; the stream
\* keeps the order
session_send ==
    /\ Len(smsg) + napplied < MaxApplied
    /\ smsg' = Append(smsg, bincode_snapshot(make_from_state(sstate)))
    /\ UNCHANGED <<cstate, snap, pre, once, napplied, sstate, cmsg, srvvars,
                   peervars, tickvars>>

\* StatePtr::update on the client: curr_time += seconds
session_client_tick ==
    /\ cstate.curr_time < MaxClock
    /\ cstate' = [cstate EXCEPT !.curr_time = @ + 1]
    /\ UNCHANGED <<snap, pre, once, napplied, sstate, cmsg, smsg, srvvars,
                   peervars, tickvars>>

\* the client's receive loop applies the oldest snapshot on the stream
session_apply ==
    /\ smsg # <<>>
    /\ snap' = Head(smsg)
    /\ smsg' = Tail(smsg)
    /\ pre' = cstate
    /\ cstate' = update_main_state(Head(smsg), cstate)
    /\ napplied' = napplied + 1
    /\ UNCHANGED <<once, sstate, cmsg, srvvars, peervars, tickvars>>

SessionNext ==
    \/ session_server_tick
    \/ session_send
    \/ session_client_tick
    \/ session_apply

SessionSpec == SessionInit /\ [][SessionNext]_vars

\* ------------------------------- the tick and the sender, under the lock
LockedTickInit == TickInit

\* a variant to compare with: the snapshot built without the lock
server_sender_snapshot_unlocked ==
    /\ snap' = make_from_state(world)
    /\ snap' # snap
    /\ UNCHANGED <<cstate, pre, once, napplied, sstate, cmsg, smsg, srvvars,
                   peervars, tickvars>>

\* server_sender: `let state = stateptr.state.lock().unwrap()`,
\* make_from_state(&state), the guard dropped at the end of the block
server_sender_snapshot ==
    /\ lock = Free
    /\ snap' = make_from_state(world)
    /\ snap' # snap
    /\ UNCHANGED <<cstate, pre, once, napplied, sstate, cmsg, smsg, srvvars,
                   peervars, tickvars>>

\* StatePtr::update: the lock taken at the top of the loop body, curr_time
\* set and real_update_server entered
update_begin(e) ==
    /\ lock = Free
    /\ tick = "idle"
    /\ ticks_done < MaxTicks
    /\ LET now == ctxtime + e
           w == integrate([world EXCEPT !.curr_time = get_level_time(now, world)],
                          seconds)
       IN  /\ Len(w.shots) <= MaxShots
           /\ ctxtime' = now
           /\ world' = w
           /\ passin' = w
    /\ tick' = "moved"
    /\ lock' = Sim
    /\ UNCHANGED <<players, connections, difficulty_mult, due, send_listener,
                   recv_listener, sconn, rconn, snd, rcv, player_index, rdata,
                   snaps, hs, c2s, ticks_done, peervars, snapvars>>

\* spawn_rocks and update_ui; locked_state is dropped at the end of the
\* loop body
update_end(new) ==
    /\ lock = Sim
    /\ tick = "swept"
    /\ Len(new) <= spawn_loops
    /\ Len(world.rocks) + Len(new) <= MaxRocks
    /\ world' = spawn_rocks(world, new)
    /\ tick' = "idle"
    /\ ticks_done' = ticks_done + 1
    /\ lock' = Free
    /\ UNCHANGED <<players, connections, difficulty_mult, due, send_listener,
                   recv_listener, sconn, rconn, snd, rcv, player_index, rdata,
                   snaps, hs, c2s, ctxtime, passin, peervars, snapvars>>

LockedTickNext ==
    \/ \E input \in LocalInputs : key_event(input)
    \/ \E e \in Elapsed : update_begin(e)
    \/ tick_handle_collisions
    \/ tick_clear_dead_stuff
    \/ \E new \in SeqsUpTo({spawned_rock(x, v) : x \in spawn_x, v \in spawn_velocity},
                           0, spawn_loops) : update_end(new)
    \/ server_sender_snapshot

LockedTickSpec == LockedTickInit /\ [][LockedTickNext]_vars

\* ------------------------------------------- firing, over several ticks
MaxFireTicks == 3  \* ticks of one behaviour

\* a world without rocks: the host's player and perhaps a second one whose
\* input stays as it was last received; pre holds, for each player, the
\* time of its last firing, -1 before the first
FireInputs == {InputDefault, InputState(FALSE, FALSE, FALSE, FALSE, TRUE)}
FireInit ==
    /\ SrvInit /\ PeerInit
    /\ \E n \in 1..2, ri \in FireInputs :
          /\ world = [players |-> [i \in 1..n |->
                                     [PlayerOn(<<100 * (i - 1), -24>>) EXCEPT
                                         !.input = IF i = 1 THEN InputDefault ELSE ri]],
                      shots |-> <<>>, rocks |-> <<>>,
                      score |-> 0, curr_time |-> 0, start_time |-> 0,
                      local_input |-> InputDefault]
          /\ pre = [i \in 1..n |-> -1]
    /\ cstate = <<>> /\ snap = <<>> /\ once = <<>> /\ napplied = 0
    /\ sstate = <<>> /\ cmsg = <<>> /\ smsg = <<>>
    /\ tick = "idle"
    /\ ctxtime = 0
    /\ ticks_done = 0
    /\ passin = NoWorld

\* EventHandler::key_down_event / key_up_event of the fire key
fire_key_event(input) ==
    /\ ticks_done < MaxFireTicks
    /\ world.local_input # input
    /\ world' = [world EXCEPT !.local_input = input]
    /\ UNCHANGED <<tick, ctxtime, ticks_done, passin, srvvars, peervars, snapvars>>

\* the shots of w that player i has fired in the tick that made w: they
\* have lost one tick of life and fly on the three lines from the player
shots_just_fired(w, i) ==
    {k \in DOMAIN w.shots :
        /\ w.shots[k].life = SHOT_LIFE - seconds
        /\ w.shots[k].pos[1] \in {w.players[i].actor.pos[1] + d : d \in -2..2}}

\* one turn of StatePtr::update on the server: e ticks of wall time later
FireElapsed == {1, 14, 15, 29}
fire_tick(e) ==
    /\ ticks_done < MaxFireTicks
    /\ LET w == MainState_real_update_server(world, ctxtime + e, <<>>)
       IN  /\ world' = w
           /\ pre' = [i \in DOMAIN pre |->
                        IF shots_just_fired(w, i) # {} THEN w.curr_time ELSE pre[i]]
    /\ passin' = world
    /\ ctxtime' = ctxtime + e
    /\ ticks_done' = ticks_done + 1
    /\ UNCHANGED <<cstate, snap, once, napplied, sstate, cmsg, smsg, tick,
                   srvvars, peervars>>

FireNext ==
    \/ \E input \in FireInputs : fire_key_event(input)
    \/ \E e \in FireElapsed : fire_tick(e)

FireSpec == FireInit /\ [][FireNext]_vars

\* ------------------------------------- a NetClientInput, built and applied
\* a variant to compare with: the message carries the input only, as the
\* InputState message of main.rs does
NetClientInput_update_input_only(self, player_id, state) ==
    [state EXCEPT !.players[player_id + 1].input = self.input_state]

\* NetClientInput::update_main_state(self, player_id, state): the shots of
\* the message are post_deserialized and pushed, the player's input and
\* position are set (play_sounds is left aside)
NetClientInput_update_main_state(self, player_id, state) ==
    [state EXCEPT
        !.shots = @ \o [i \in DOMAIN self.shots_made |->
                           post_deserialize(self.shots_made[i])],
        !.players[player_id + 1].input = self.input_state,
        !.players[player_id + 1].actor.pos =
            <<self.final_position[1], self.final_position[2]>>]

\* a variant to compare with: local_shots_made is not emptied
NetClientInput_clear_not(list) == list
\* state.local_shots_made.clear()
NetClientInput_clear(list) == <<>>

\* NetClientInput::make_from_state(state): the message, and the state it
\* leaves; get_local_player() is the player at local_player_index, if any
NetClientInput_make_from_state(state) ==
    LET player == IF state.local_player_index + 1 \in DOMAIN state.players
                  THEN state.players[state.local_player_index + 1]
                  ELSE state.players[1]
    IN  [r |-> [input_state |-> state.local_input,
                final_position |-> <<player.actor.pos[1], player.actor.pos[2]>>,
                shots_made |-> [i \in DOMAIN state.local_shots_made |->
                                   pre_serialize(state.local_shots_made[i])]],
         state |-> [state EXCEPT !.local_shots_made = NetClientInput_clear(@)]]

\* a NetClientInput through send_struct and recv_update
bincode_input(m) ==
    [m EXCEPT !.shots_made = [i \in DOMAIN @ |-> bincode_actor(@[i])]]

\* a client with index 1: the host's player and its own, its keys, and the
\* shots it has fired since its last message
InputClientStates ==
    {[players |-> <<[actor |-> MovingActor("Player", Zero, Zero),
                     input |-> InputDefault, last_shot_at |-> 0],
                    [actor |-> MovingActor("Player", v, Zero),
                     input |-> InputDefault, last_shot_at |-> 0]>>,
      rocks |-> <<>>, shots |-> made, score |-> 0, curr_time |-> 4,
      local_player_index |-> 1,
      local_input |-> li,
      local_shots_made |-> made] :
        v \in {<<5, -3>>, <<2, 2>>}, li \in LocalInputs,
        made \in SeqsUpTo({MovingActor("Shot", <<5, -3>>, <<0, 7>>)}, 0, 1)}

\* the server with that client registered
InputServerStates ==
    {[s EXCEPT !.players = [i \in DOMAIN @ |-> [@[i] EXCEPT !.input = InputDefault]]] :
        s \in {t \in ServerStates : Len(t.players) = 2 /\ Len(t.rocks) <= 1}}

InputInit ==
    /\ SrvInit /\ PeerInit /\ TickIdle
    /\ sstate \in InputServerStates
    /\ cstate \in InputClientStates
    /\ cmsg = <<>>
    /\ smsg = <<>>
    /\ pre = sstate
    /\ snap = <<>>
    /\ once = <<>>
    /\ napplied = 0

\* client_sender_thread: make_from_state under the client's lock, then
\* send_struct
input_make ==
    /\ cmsg = <<>>
    /\ LET made == NetClientInput_make_from_state(cstate)
       IN  /\ cmsg' = <<bincode_input(made.r)>>
           /\ cstate' = made.state
    /\ UNCHANGED <<snap, pre, once, napplied, sstate, smsg, srvvars, peervars,
                   tickvars>>

\* server_recver of the connection with index 1: recv_update decodes the
\* message, the closure applies it under the world lock
input_apply ==
    /\ cmsg # <<>>
    /\ sstate' = NetClientInput_update_main_state(Head(cmsg), 1, sstate)
    /\ pre' = sstate
    /\ cmsg' = Tail(cmsg)
    /\ napplied' = napplied + 1
    /\ napplied < 2
    /\ UNCHANGED <<cstate, snap, once, smsg, srvvars, peervars, tickvars>>

InputNext == input_make \/ input_apply

InputSpec == InputInit /\ [][InputNext]_vars

\* ------------------------------- the client's shots, over several builds
MaxMade == 2       \* shots the client makes in one behaviour
MaxBuilds == 3     \* messages client_sender_thread builds in one behaviour

\* the k-th shot the client makes, told from the others by where it is made
MadeShot(k) == MovingActor("Shot", <<10 * k, 0>>, <<0, 7>>)

\* a client with index 1 that has made no shot yet; napplied counts the
\* shots made, once holds every message built, oldest first
BuildInit ==
    /\ SrvInit /\ PeerInit /\ TickIdle
    /\ cstate \in {s \in InputClientStates : s.local_shots_made = <<>>}
    /\ once = <<>>
    /\ napplied = 0
    /\ sstate = <<>> /\ pre = <<>> /\ snap = <<>>
    /\ cmsg = <<>> /\ smsg = <<>>

\* the client's tick pushes a shot it has fired onto local_shots_made, the
\* world lock held
client_shot_made ==
    /\ napplied < MaxMade
    /\ cstate' = [cstate EXCEPT !.local_shots_made = Append(@, MadeShot(napplied + 1))]
    /\ napplied' = napplied + 1
    /\ UNCHANGED <<snap, pre, once, sstate, cmsg, smsg, srvvars, peervars,
                   tickvars>>

\* one turn of client_sender_thread's loop: the lock, make_from_state, the
\* guard dropped, send_struct
client_sender_build ==
    /\ Len(once) < MaxBuilds
    /\ LET made == NetClientInput_make_from_state(cstate)
       IN  /\ once' = Append(once, bincode_input(made.r))
           /\ cstate' = made.state
    /\ UNCHANGED <<snap, pre, napplied, sstate, cmsg, smsg, srvvars, peervars,
                   tickvars>>

BuildNext == client_shot_made \/ client_sender_build

BuildSpec == BuildInit /\ [][BuildNext]_vars

\* ===================================================================== claims
Registered(p) == player_index[p] # -1
AcceptedInput == {p \in Peers : rconn[p] = "accepted"}

\* C1: a receiver thread registers exactly one player, holding the world lock,
\* and takes as index the player count just before; the index is above every
\* index assigned earlier and is never changed or given again.
C1_IndexAssignment ==
    /\ [](\A p, q \in Peers :
            (p # q /\ Registered(p) /\ Registered(q))
                => player_index[p] # player_index[q])
    /\ [][ /\ \A p \in Peers :
                (~Registered(p) /\ player_index'[p] # -1)
                    => /\ lock = Rcv(p)
                       /\ player_index'[p] = Len(players)
                       /\ Len(players') = Len(players) + 1
                       /\ \A q \in Peers :
                            Registered(q) => player_index[q] < player_index'[p]
           /\ \A p \in Peers :
                Registered(p) => player_index'[p] = player_index[p]
           /\ Len(players') # Len(players)
                => Cardinality({p \in Peers :
                        ~Registered(p) /\ player_index'[p] # -1}) = 1 ]_vars

\* two clients registered in the order opposite to their connecting
C1_Witness ==
    /\ player_index[1] = 2
    /\ player_index[2] = 1
    /\ Len(players) = 3

\* C2: a network thread that sleeps, reads from or writes to its socket does
\* not hold the world lock of its process: server_sender and server_recver
\* hold the server's lock, the observer loop and client_sender_thread the
\* client's, only inside their critical sections.
C2_NoLockDuringIO ==
    \A p \in Peers :
        /\ snd[p] \in {"start", "sleep", "write"} => lock # Snd(p)
        /\ rcv[p] \in {"start", "handshake", "read", "got"} => lock # Rcv(p)
        /\ obs[p] \in {"read", "got"} => clock[p] # Obs(p)
        /\ csnd[p] \in {"hswait", "hsgot", "sleep", "write"} => clock[p] # CSnd(p)

\* all four loops are in a socket operation while the game loop ticks
C2_Witness ==
    /\ snd[1] = "write"
    /\ rcv[1] = "read"
    /\ obs[1] = "read"
    /\ csnd[1] = "write"
    /\ lock = Sim

\* C3: applying a snapshot keeps the local player's actor and gives every
\* other player of the roster the snapshot's position and velocity.
AppliedFrom == IF napplied = 1 THEN pre ELSE once
C3_LocalActorKept ==
    napplied >= 1 =>
        LET L == AppliedFrom.local_player_index
        IN  L >= 0 =>
              /\ L < Len(AppliedFrom.players)
                    => cstate.players[L + 1].actor = AppliedFrom.players[L + 1].actor
              /\ \A i \in 1..Len(snap.players) :
                    i - 1 # L =>
                      /\ cstate.players[i].actor.pos
                            = snap.players[i].actor.serial_interm.pos
                      /\ cstate.players[i].actor.velocity
                            = snap.players[i].actor.serial_interm.vel

\* local_player_index = Some(0), a roster of two: player 0 keeps a position
\* that differs from the snapshot's, player 1 has the snapshot's
C3_Witness ==
    /\ napplied = 1
    /\ pre.local_player_index = 0
    /\ Len(snap.players) = 2
    /\ Len(pre.players) = 2
    /\ cstate.players[1].actor.pos # snap.players[1].actor.serial_interm.pos
    /\ cstate.players[2].actor.pos # pre.players[2].actor.pos

\* C4: after a snapshot is applied the score is the snapshot's, the rocks are
\* the snapshot's Rock actors and the shots its Shot actors, in snapshot order.
TaggedOf(tag) == SelectSeq(snap.actors, LAMBDA a : a.tag = tag)
SameActors(list, wire) ==
    /\ Len(list) = Len(wire)
    /\ \A k \in 1..Len(wire) :
          /\ list[k].tag = wire[k].tag
          /\ list[k].pos = wire[k].serial_interm.pos
          /\ list[k].velocity = wire[k].serial_interm.vel
C4_WholesaleReplace ==
    napplied >= 1 =>
        /\ cstate.score = snap.score
        /\ SameActors(cstate.rocks, TaggedOf("Rock"))
        /\ SameActors(cstate.shots, TaggedOf("Shot"))

\* a client with a stale rock, shot and score gets a rock and a shot
C4_Witness ==
    /\ napplied = 1
    /\ pre.rocks # <<>>
    /\ pre.shots # <<>>
    /\ pre.score # snap.score
    /\ Len(cstate.rocks) = 1
    /\ Len(cstate.shots) = 1

\* C5: a second application of the same snapshot leaves rocks, shots and
\* score as the first did, and the local player's actor where it was before
\* the first.
C5_Idempotent ==
    napplied = 2 =>
        /\ cstate.rocks = once.rocks
        /\ cstate.shots = once.shots
        /\ cstate.score = once.score
        /\ LET L == pre.local_player_index
           IN  (L >= 0 /\ L < Len(pre.players))
                   => cstate.players[L + 1].actor.pos = pre.players[L + 1].actor.pos

\* applied twice to a client that is player 1 of a roster of two
C5_Witness ==
    /\ napplied = 2
    /\ pre.local_player_index = 1
    /\ Len(pre.players) = 2
    /\ Len(snap.players) = 2
    /\ cstate.rocks # <<>>
    /\ cstate.shots # <<>>

\* C6: an observer process has no connection to the input port, no sender
\* thread and no byte sent; no step of a snapshot connection or of its sender
\* thread changes the player list, which grows only in the registration block
\* of a receiver thread serving a client's input connection.
C6_ObserverNeverRegisters ==
    /\ [](\A p \in Peers :
            role[p] = "observer"
                => /\ rconn[p] = "none"
                   /\ csnd[p] \in {"idle", "exit"}
                   /\ c2s[p] = <<>>
                   /\ rcv[p] = "idle"
                   /\ ~Registered(p))
    /\ [][ /\ \A p \in Peers :
                (sconn'[p] # sconn[p] \/ snd'[p] # snd[p]) => players' = players
           /\ Len(players') # Len(players)
                => \E p \in Peers :
                      /\ role[p] = "client"
                      /\ rconn[p] = "accepted"
                      /\ rcv[p] = "registering" ]_vars

\* an observer is being sent a snapshot and the host is still alone
C6_Witness ==
    \E p \in Peers :
        /\ role[p] = "observer"
        /\ snd[p] = "write"
        /\ snaps[p] > 0
        /\ Len(players) = 1

\* C7: on an input connection the server writes one message only, the
\* handshake with the index registered for the connection, and it has written
\* it whenever it is reading or applying a ClientInput.
C7_HandshakeFirst ==
    \A p \in Peers :
        /\ Len(hs[p]) <= 1
        /\ hs[p] # <<>>
              => /\ hs[p][1] = NetPlayerConnected(player_index[p])
                 /\ player_index[p] >= 1
                 /\ player_index[p] < Len(players)
        /\ rcv[p] \in {"idle", "start", "registering", "handshake"}
              => /\ hs[p] = <<>>
                 /\ rdata[p] = -1
        /\ rcv[p] \in {"read", "got", "applying"} => Len(hs[p]) = 1

\* the client registered second has its input applied
C7_Witness ==
    \E p \in Peers :
        /\ rcv[p] = "applying"
        /\ hs[p] = <<NetPlayerConnected(2)>>

\* C8 as stated: the player count is 1 plus the input connections accepted.
C8_CountEqualsAccepted == Len(players) = 1 + Cardinality(AcceptedInput)

\* C8, amended: the player count is 1 plus the receiver threads that have
\* run their registration block; it is at most 1 plus the accepted input
\* connections, equals it when no receiver thread is still ahead of its
\* registration, and never decreases.
C8_CountEqualsRegistered ==
    /\ [](/\ Len(players) = 1 + Cardinality({p \in Peers : Registered(p)})
          /\ Len(players) <= 1 + Cardinality(AcceptedInput)
          /\ (\A p \in Peers : rcv[p] \notin {"start", "registering"})
                => Len(players) = 1 + Cardinality(AcceptedInput))
    /\ [][Len(players') >= Len(players)]_vars

\* a client has gone and its player stays
C8_Witness ==
    \E p \in Peers :
        /\ cmain[p] = "exit"
        /\ Registered(p)
        /\ Len(players) = 3

\* C9: both listeners are at accept in every state, whatever the connections
\* accepted earlier are doing, so that a pending connection is accepted; and
\* every accepted connection is being served.
C9_ListenerKeepsAccepting ==
    /\ send_listener = "accepting"
    /\ recv_listener = "accepting"
    /\ \A p \in Peers :
          /\ sconn[p] = "accepted" => snd[p] # "idle"
          /\ rconn[p] = "accepted" => rcv[p] # "idle"

\* the first client is served, the second one's connections wait for
\* listeners that are not at accept
C9_SecondConnectionWaits ==
    /\ snd[1] = "write"
    /\ rcv[1] = "read"
    /\ sconn[2] = "pending"
    /\ rconn[2] = "pending"
    /\ send_listener # "accepting"
    /\ recv_listener # "accepting"

\* C10: a tick that is due is run, whatever a sender's socket does.
C10_TickEventuallyRuns == (due > 0) ~> (lock = Sim)

\* the tick runs while the sender's write is blocked on a full buffer
C10_Witness ==
    /\ snd[1] = "write"
    /\ snaps[1] = MaxQueue
    /\ lock = Sim

\* C11: the step on which a socket write fails is the last one of the thread
\* serving the connection. (A write fails when the sender leaves its write
\* with nothing added to the stream.)
C11_FailedWriteEndsThread ==
    [][\A p \in Peers :
          (snd[p] = "write" /\ snd'[p] # "write" /\ snaps'[p] <= snaps[p])
              => snd'[p] \in {"exit", "panicked"}]_vars

\* the peer is gone and the sender holds the world lock to build a snapshot
\* for it
C11_SenderGoesOn ==
    /\ cmain[1] = "exit"
    /\ snd[1] = "locked"
    /\ lock = Snd(1)

\* C12: a step that takes undecodable bytes off an input stream calls no
\* handler (no input is held for applying, the players and the lock are as
\* before) and leaves the receiver at the head of its paced loop, not in a
\* further read.
C12_DecodeFailureDropped ==
    [][\A p \in Peers :
          (/\ c2s[p] # <<>>
           /\ Head(c2s[p]) = Undecodable
           /\ Len(c2s'[p]) < Len(c2s[p]))
              => /\ players' = players
                 /\ rdata' = rdata
                 /\ lock' = lock
                 /\ rcv'[p] = "read"]_vars

\* inside the recursive recv_update, a message at hand that the handler
\* will be given before the loop has slept
C12_RereadUnpaced ==
    \E p \in Peers :
        /\ rcv[p] = "reread"
        /\ c2s[p] # <<>>
        /\ Head(c2s[p]) \in InputVals

\* C13: once a bind has failed, the game loop begins no further tick.
C13_NoTickAfterFailedBind ==
    [][(send_listener = "failed" \/ recv_listener = "failed")
          => ~(lock # Sim /\ lock' = Sim)]_vars

\* a tick runs and no listener is bound
C13_TickAfterFailedBind ==
    /\ recv_listener = "failed"
    /\ send_listener = "dropped"
    /\ lock = Sim

\* C14: with the world lock poisoned, a server thread that comes to an
\* acquisition of the lock ends there: it does not go on with its loop.
C14_PoisonStopsEveryThread ==
    [][lock = Poisoned =>
          \A p \in Peers :
              /\ (snd[p] \in {"start", "sleep"} /\ snd'[p] # snd[p])
                    => snd'[p] \in {"panicked", "exit"}
              /\ (rcv[p] \in {"start", "got"} /\ rcv'[p] # rcv[p])
                    => rcv'[p] \in {"panicked", "exit"}]_vars

\* the receiver has decoded an input and the lock it will ask for is
\* poisoned
C14_ReceiverMeetsPoison ==
    /\ lock = Poisoned
    /\ rcv[1] = "got"
    /\ snd[1] = "panicked"

\* some rock of the collision pass is strictly closer to some player than
\* the sum of their bounding radii
RockHitsPlayer(w) ==
    \E i \in DOMAIN w.rocks, k \in DOMAIN w.players :
        norm_squared(vminus(w.rocks[i].pos, w.players[k].actor.pos))
            < (w.rocks[i].bbox_size + w.players[k].actor.bbox_size)
                * (w.rocks[i].bbox_size + w.players[k].actor.bbox_size)

\* rock i and shot j of the collision pass are strictly closer than the sum
\* of their bounding radii
RockHitsShot(w, i, j) ==
    norm_squared(vminus(w.shots[j].pos, w.rocks[i].pos))
        < (w.shots[j].bbox_size + w.rocks[i].bbox_size)
            * (w.shots[j].bbox_size + w.rocks[i].bbox_size)

\* the rocks spawn_rocks may have pushed in this tick
JustSpawned(a) == a \in {spawned_rock(x, v) : x \in spawn_x, v \in spawn_velocity}

\* C15: the step that ends a tick whose collision pass found a rock strictly
\* closer to a player than the sum of their radii ends it with score 0, with
\* no rock or shot of the pass (the rocks in the list are the ones spawned
\* after the sweep), and with last_shot_at 0 and the default input for every
\* player; when the pass found no such rock, the tick did not restart: the
\* start time is the one the tick began with and the score has not gone
\* down.
C15_RestartOnPlayerHit ==
    [][(tick = "swept" /\ tick' = "idle") =>
          IF RockHitsPlayer(passin)
          THEN /\ world'.score = 0
               /\ world'.shots = <<>>
               /\ \A i \in DOMAIN world'.rocks : JustSpawned(world'.rocks[i])
               /\ \A k \in DOMAIN world'.players :
                      /\ world'.players[k].last_shot_at = 0
                      /\ world'.players[k].input = InputDefault
               /\ world'.local_input = InputDefault
               /\ world'.start_time = ctxtime
          ELSE /\ world'.start_time = passin.start_time
               /\ world'.score >= passin.score
               /\ world'.players = passin.players]_vars

\* a tick has ended that restarted the session although a shot hit a rock
\* in the same pass, and another has ended whose nearest rock was at exactly
\* the sum of the radii
C15_Witness ==
    /\ tick = "idle" /\ ticks_done > 0
    /\ RockHitsPlayer(passin)
    /\ passin.score > 0
    /\ \E i \in DOMAIN passin.rocks, j \in DOMAIN passin.shots : RockHitsShot(passin, i, j)
    /\ Len(passin.players) = 2

C15_WitnessAtTheSum ==
    /\ tick = "idle" /\ ticks_done > 0
    /\ ~RockHitsPlayer(passin)
    /\ \E i \in DOMAIN passin.rocks, k \in DOMAIN passin.players :
          norm_squared(vminus(passin.rocks[i].pos, passin.players[k].actor.pos))
              = (ROCK_BBOX + PLAYER_BBOX) * (ROCK_BBOX + PLAYER_BBOX)

\* C16: after a collision pass, every rock and shot of the pass whose
\* centres were strictly closer than the sum of their radii are both marked
\* dead, at whatever indices of the two lists they stand.
C16_BothMarkedDead ==
    tick = "collided" =>
        \A i \in DOMAIN passin.rocks, j \in DOMAIN passin.shots :
            RockHitsShot(passin, i, j) =>
                /\ world.rocks[i].life = 0
                /\ world.shots[j].life = 0

\* a pass without restart over two rocks and two shots, in which the last
\* rock and the last shot hit each other and the first shot hits nothing
C16_Witness ==
    /\ tick = "collided"
    /\ ~RockHitsPlayer(passin)
    /\ Len(passin.rocks) = 2 /\ Len(passin.shots) = 2
    /\ RockHitsShot(passin, 2, 2)
    /\ ~RockHitsShot(passin, 1, 1) /\ ~RockHitsShot(passin, 2, 1)
    /\ passin.shots[1].life > 0 /\ world.shots[1].life > 0
    /\ world.rocks[2].life = 0 /\ world.shots[2].life = 0

\* two rocks 5 apart and one shot 4 from one of them, all alive, no player
\* near
TwoRocksOneShot(w) ==
    /\ Len(w.rocks) = 2 /\ Len(w.shots) = 1
    /\ norm_squared(vminus(w.rocks[1].pos, w.rocks[2].pos)) = 5 * 5
    /\ \E i \in 1..2 : norm_squared(vminus(w.shots[1].pos, w.rocks[i].pos)) = 4 * 4
    /\ \A i \in 1..2 : w.rocks[i].life > 0 /\ w.rocks[i].bbox_size = 12
    /\ w.shots[1].life > 0 /\ w.shots[1].bbox_size = 6
    /\ ~RockHitsPlayer(w)

\* C17: a collision pass over two rocks 5 apart and one shot 4 from one of
\* them adds exactly 1 to the score, marks the shot and exactly one rock
\* dead and leaves the other rock alive.
C17_OneRockOnePoint ==
    (tick = "collided" /\ TwoRocksOneShot(passin)) =>
        /\ world.score = passin.score + 1
        /\ world.shots[1].life = 0
        /\ \E i \in 1..2 : world.rocks[i].life = 0 /\ world.rocks[3 - i].life > 0

\* the pass over that scenario has marked both rocks dead and added 2
C17_BothRocksTwoPoints ==
    /\ tick = "collided"
    /\ TwoRocksOneShot(passin)
    /\ world.score = passin.score + 2
    /\ world.rocks[1].life = 0 /\ world.rocks[2].life = 0
    /\ world.shots[1].life = 0

\* C18: when a tick has ended, the rock list and the shot list hold only
\* alive entities: what the tick marked dead is in neither list.
C18_OnlyAliveAfterTick ==
    tick = "idle" =>
        /\ \A i \in DOMAIN world.rocks : world.rocks[i].life > 0
        /\ \A j \in DOMAIN world.shots : world.shots[j].life > 0

\* the sweep is about to remove a rock the bounds check marked, and a rock
\* and a shot a collision marked, and to leave an alive shot in the list
C18_WitnessMarked ==
    /\ tick = "collided"
    /\ \E i \in DOMAIN world.rocks :
          world.rocks[i].life = 0 /\ is_out_of_bounds(world.rocks[i], screen_width, screen_height)
    /\ \E i \in DOMAIN world.rocks, j \in DOMAIN world.shots :
          /\ RockHitsShot(passin, i, j)
          /\ ~is_out_of_bounds(world.rocks[i], screen_width, screen_height)
          /\ world.rocks[i].life = 0 /\ world.shots[j].life = 0
    /\ \E j \in DOMAIN world.shots : world.shots[j].life > 0

\* a tick that marked entities dead has ended with entities in its lists
C18_Witness ==
    /\ tick = "idle" /\ ticks_done > 0
    /\ \E i \in DOMAIN passin.rocks : passin.rocks[i].life = 0
    /\ \E j \in DOMAIN passin.shots : passin.shots[j].life < 0
    /\ Len(world.shots) > 0 /\ Len(world.shots) < Len(passin.shots)
    /\ Len(world.rocks) > 0

\* the position of player k of w after the input and the velocity have moved
\* it, before any wrapping
Integrated(w, k) ==
    update_actor_position(
        player_handle_input(w.players[k].actor,
                            IF k = 1 THEN w.local_input ELSE w.players[k].input,
                            seconds),
        seconds).pos

Translated(c, extent) ==
    IF c > extent \div 2 THEN c - extent
    ELSE IF c < -(extent \div 2) THEN c + extent
    ELSE c

\* C19: the step of a tick that integrates the positions leaves a rock or
\* shot that is beyond the half-extent on an axis where the integration put
\* it, marked dead; the sweep leaves no rock or shot beyond the half-extent
\* in the lists; a player beyond the half-extent on an axis is moved by the
\* full extent of that axis, and no step of a tick changes the life of a
\* player or the number of players.
C19_BoundsKillWrapKeeps ==
    [][/\ (tick = "idle" /\ tick' = "moved") =>
            /\ \A i \in DOMAIN world.rocks :
                  LET a == update_actor_position(world.rocks[i], seconds)
                  IN  is_out_of_bounds(a, screen_width, screen_height) =>
                          /\ world'.rocks[i].pos = a.pos
                          /\ world'.rocks[i].life <= 0
            /\ \A j \in DOMAIN world.shots :
                  LET a == update_actor_position(world.shots[j], seconds)
                  IN  is_out_of_bounds(a, screen_width, screen_height) =>
                          /\ world'.shots[j].pos = a.pos
                          /\ world'.shots[j].life <= 0
            /\ \A k \in DOMAIN world.players :
                  world'.players[k].actor.pos =
                      <<Translated(Integrated(world, k)[1], screen_width),
                        Translated(Integrated(world, k)[2], screen_height)>>
       /\ tick' = "swept" =>
            /\ \A i \in DOMAIN world'.rocks :
                  ~is_out_of_bounds(world'.rocks[i], screen_width, screen_height)
            /\ \A j \in DOMAIN world'.shots :
                  ~is_out_of_bounds(world'.shots[j], screen_width, screen_height)
       /\ tick # "off" =>
            /\ Len(world'.players) = Len(world.players)
            /\ \A k \in DOMAIN world.players :
                  world'.players[k].actor.life = world.players[k].actor.life
      ]_vars

\* a tick has ended in which a rock and a shot went beyond the half-extent
\* and the first player was wrapped to the other side
C19_Witness ==
    /\ tick = "idle" /\ ticks_done > 0
    /\ \E i \in DOMAIN passin.rocks :
          is_out_of_bounds(passin.rocks[i], screen_width, screen_height)
    /\ \E j \in DOMAIN passin.shots :
          is_out_of_bounds(passin.shots[j], screen_width, screen_height)
    /\ world.players[1].actor.pos[1] = 543 - screen_width
    /\ world.players[1].actor.life = PLAYER_LIFE

\* the snapshot applied holds the local player, which the client had before
LocalInRoster ==
    /\ pre.local_player_index >= 0
    /\ pre.local_player_index < Len(snap.players)
    /\ pre.local_player_index < Len(pre.players)

\* curr_time - last_shot_at of the local player in client state s
LocalElapsed(s) == s.curr_time - s.players[s.local_player_index + 1].last_shot_at

\* the last_shot_at the shift starts from: the client's own for the local
\* player, the snapshot's for the others, 0 for a player created on the way
ShiftBase(i) ==
    IF pre.local_player_index # i - 1 THEN snap.players[i].last_shot_at
    ELSE IF i <= Len(pre.players) THEN pre.players[i].last_shot_at
    ELSE 0

C21_RosterNeverShrinks ==
    napplied >= 1 =>
        LET m == Len(pre.players)
            n == Len(snap.players)
        IN  /\ Len(once.players) = IF m >= n THEN m ELSE n
            /\ \A i \in 1..n : i \in DOMAIN once.players
            /\ \A i \in (n + 1)..m : once.players[i] = pre.players[i]
            /\ \A i \in (m + 1)..n :
                  once.players[i].actor =
                      IF pre.local_player_index = i - 1
                      THEN create_player.actor
                      ELSE post_deserialize(snap.players[i].actor)

\* a snapshot of two players has been applied to a client that had one
C21_Witness ==
    /\ napplied = 1
    /\ Len(pre.players) = 1
    /\ Len(snap.players) = 2
    /\ Len(once.players) = 2
    /\ pre.local_player_index = 0

\* a snapshot of one player has been applied to a client that had two
C21_WitnessLonger ==
    /\ napplied = 1
    /\ Len(pre.players) = 2
    /\ Len(snap.players) = 1
    /\ Len(once.players) = 2

\* position and velocity of the actors of a list, in the order of the list
Kinematics(list) == [i \in DOMAIN list |-> <<list[i].pos, list[i].velocity>>]

\* C22: once the snapshot built from a server state has been applied on an
\* observer, the observer's players, rocks and shots have the positions and
\* velocities of the server's, in the same order, and its score and
\* simulation time are the server's.
C22_RoundTrip ==
    napplied >= 1 =>
        /\ Kinematics([i \in DOMAIN cstate.players |-> cstate.players[i].actor])
              = Kinematics([i \in DOMAIN sstate.players |-> sstate.players[i].actor])
        /\ Kinematics(cstate.rocks) = Kinematics(sstate.rocks)
        /\ Kinematics(cstate.shots) = Kinematics(sstate.shots)
        /\ cstate.score = sstate.score
        /\ cstate.curr_time = sstate.curr_time

\* a snapshot of two players, two rocks and two shots at different places
\* has been applied on an observer that had one player and stale entities
C22_Witness ==
    /\ napplied = 1
    /\ Len(sstate.players) = 2 /\ Len(pre.players) = 1
    /\ Len(sstate.rocks) = 2 /\ sstate.rocks[1].pos # sstate.rocks[2].pos
    /\ Len(sstate.shots) = 2 /\ sstate.shots[1].pos # sstate.shots[2].pos
    /\ Len(pre.rocks) = 1
    /\ sstate.score = 7
    /\ sstate.players[1].actor.pos # sstate.players[2].actor.pos
    /\ cstate.shots[2].velocity = <<2, 7>>

\* C23: the step in which the server applies the ClientInput of the
\* connection with index 1 changes players[2].input to the input of the
\* message and nothing else of the server's state.
C23_OnlyInputChanges ==
    [][(cmsg # <<>> /\ cmsg' = <<>>) =>
          sstate' = [sstate EXCEPT !.players[2].input = Head(cmsg).input_state]]_vars

\* a ClientInput has been applied that moved the player and added a shot
C23_PositionAndShotsToo ==
    /\ napplied = 1
    /\ sstate.players[2].actor.pos # pre.players[2].actor.pos
    /\ Len(sstate.shots) = Len(pre.shots) + 1
    /\ sstate.players[2].input.fire /\ ~pre.players[2].input.fire
    /\ sstate.players[1] = pre.players[1]
    /\ sstate.rocks = pre.rocks /\ sstate.score = pre.score

\* C24: a tick of a client leaves the rocks, the shots and the score as
\* they were: none added, none removed, none moved, the score the same.
C24_TickKeepsRocksAndShots ==
    [][ticks_done' = ticks_done + 1 =>
          /\ world'.rocks = world.rocks
          /\ world'.shots = world.shots
          /\ world'.score = world.score]_vars

\* a client has ticked: as many rocks and shots as before and the same
\* score, while a rock and a shot have moved
C24_TickMovesRocksAndShots ==
    /\ ticks_done = 1
    /\ Len(world.rocks) = Len(passin.rocks) /\ Len(world.rocks) > 0
    /\ Len(world.shots) = Len(passin.shots) /\ Len(world.shots) > 0
    /\ world.score = passin.score
    /\ world.rocks[1].pos # passin.rocks[1].pos
    /\ world.shots[1].pos # passin.shots[1].pos

C25_WitnessServer == role[1] = "server" /\ Len(args) = 1
\* started with an argument where s is not the first character, and an address
C25_WitnessClient ==
    role[1] = "client" /\ Len(args) = 2 /\ args[1] = <<"1", "s">>

\* C26 as stated: the configuration network_main hands to its threads has
\* transfer_ms >= 1; a loaded value is raised to at least 1; when the file
\* cannot be opened or parsed the defaults are used and the file holds them
\* afterwards.
C26_DefaultsWritten ==
    [][(net = <<>> /\ net' # <<>>) =>
          /\ Head(net').transfer_ms >= 1
          /\ file.state = "ok" =>
                /\ Head(net') = [file.data EXCEPT
                                    !.transfer_ms = IF @ >= 1 THEN @ ELSE 1]
                /\ file' = file
          /\ file.state # "ok" =>
                /\ Head(net') = NetSetup_default
                /\ file'.state = "ok" /\ file'.data = NetSetup_default]_vars

\* C26: the configuration network_main hands to its threads has
\* transfer_ms >= 1; a loaded value is raised to at least 1 and the file is
\* left alone; when the file cannot be opened or parsed the defaults are
\* used, and the file holds them afterwards when it could be created and
\* written, is left as it was when it could not be created, and is left
\* truncated when the write failed.
C26_DefaultsWrittenWhenPossible ==
    [][(net = <<>> /\ net' # <<>>) =>
          /\ Head(net').transfer_ms >= 1
          /\ file.state = "ok" =>
                /\ Head(net') = [file.data EXCEPT
                                    !.transfer_ms = IF @ >= 1 THEN @ ELSE 1]
                /\ file' = file
          /\ file.state # "ok" =>
                /\ Head(net') = NetSetup_default
                /\ file.creatable /\ file.writable =>
                      file'.state = "ok" /\ file'.data = NetSetup_default
                /\ ~file.creatable => file' = file
                /\ file.creatable /\ ~file.writable => file'.state = "unparsable"]_vars

\* every thread's configuration: the one network_main loaded
C26_TransferAtLeastOne ==
    net # <<>> => Head(net).transfer_ms >= 1

\* a file holding transfer_ms = 0 was loaded and the role started with 1
C26_Witness ==
    /\ role[1] # "none"
    /\ file.state = "ok" /\ file.data.transfer_ms = 0
    /\ Head(net).transfer_ms = 1
\* the defaults are in use and the file, which cannot be created, is absent
C26_WitnessNotWritten ==
    /\ net = <<NetSetup_default>>
    /\ file.state = "absent" /\ ~file.creatable
\* the defaults are in use and were written
C26_WitnessWritten ==
    /\ net = <<NetSetup_default>>
    /\ file.state = "ok" /\ file.data = NetSetup_default /\ file.creatable

\* the coordinate c lies beyond an edge by at most one extent s
BeyondByOneExtent(c, s) ==
    \/ s \div 2 < c /\ c <= s \div 2 + s
    \/ -(s \div 2) - s <= c /\ c < -(s \div 2)
\* c lies on an edge or inside
WithinEdges(c, s) == -(s \div 2) <= c /\ c <= s \div 2

\* C27: after the first wrapping of a player, on each axis: a coordinate
\* that was beyond the half-extent by at most one full extent has moved by
\* exactly the full extent towards the opposite side and lies in
\* [-half, +half]; a coordinate that was on an edge or inside is the same;
\* and a second wrapping of a player so wrapped leaves it as it is.
C27_WrapOnceIntoRange ==
    LET was == pre.players[1].actor.pos
        first == once.players[1].actor.pos
        now == world.players[1].actor.pos
        size == <<screen_width, screen_height>>
    IN  ticks_done >= 1 =>
          \A ax \in 1..2 :
            /\ BeyondByOneExtent(was[ax], size[ax]) =>
                  /\ first[ax] = IF was[ax] > 0 THEN was[ax] - size[ax]
                                 ELSE was[ax] + size[ax]
                  /\ WithinEdges(first[ax], size[ax])
            /\ WithinEdges(was[ax], size[ax]) => first[ax] = was[ax]
            /\ (ticks_done >= 2 /\ (BeyondByOneExtent(was[ax], size[ax])
                                     \/ WithinEdges(was[ax], size[ax]))) =>
                  now[ax] = first[ax]

\* a player that was one pixel beyond the right edge and on the lower edge
\* has been wrapped twice
C27_Witness ==
    /\ ticks_done = 2
    /\ pre.players[1].actor.pos = <<screen_width \div 2 + 1, -(screen_height \div 2)>>
    /\ world.players[1].actor.pos = <<1 - screen_width \div 2, -(screen_height \div 2)>>
\* a player a full extent beyond the left edge lands on the left edge
C27_WitnessFullExtent ==
    /\ ticks_done = 1
    /\ pre.players[1].actor.pos[1] = -(screen_width \div 2) - screen_width
    /\ world.players[1].actor.pos[1] = -(screen_width \div 2)
\* further out than one extent, one wrapping does not reach the screen and
\* the second one moves the player again
C27_WitnessFurtherOut ==
    /\ ticks_done = 2
    /\ pre.players[1].actor.pos[1] = screen_width \div 2 + screen_width + 1
    /\ passin.players[1].actor.pos[1] = screen_width \div 2 + 1
    /\ world.players[1].actor.pos[1] = 1 - screen_width \div 2

\* the client of connection p is gone and nothing of it is left to apply
ConnectionEnded(p) ==
    /\ cmain[p] = "exit"
    /\ Registered(p)
    /\ c2s[p] = <<>>
    /\ rcv[p] = "read"

\* C28 as stated: once the connection of the client with index k has ended,
\* no step removes players[k] or changes players[k].input.
C28_InputKeptForever ==
    [][ConnectionEnded(1) =>
          /\ player_index'[1] + 1 \in DOMAIN players'
          /\ players'[player_index[1] + 1].input = players[player_index[1] + 1].input]_vars

\* C28: once the connection of the client with index k has ended, no step
\* removes players[k], and a step changes players[k].input only by resetting
\* the input of every player to the default (restart_game).
C28_InputKeptUntilRestart ==
    [][ConnectionEnded(1) =>
          /\ player_index'[1] = player_index[1]
          /\ player_index[1] + 1 \in DOMAIN players'
          /\ \/ players'[player_index[1] + 1].input = players[player_index[1] + 1].input
             \/ \A i \in DOMAIN players' : players'[i].input = 0]_vars

\* the client is gone and its player still holds the input it sent last
C28_Witness ==
    /\ ConnectionEnded(1)
    /\ players[player_index[1] + 1].input = 1
    /\ lock = Sim

\* C30: whenever the client's sender thread is about to write a ClientInput,
\* the first one included, the server has registered the connection and the
\* client's local_player_index is the index registered for it.
C30_IndexBeforeFirstInput ==
    csnd[1] = "write" => Registered(1) /\ lpi[1] = player_index[1]

\* the handshake read has timed out: the client writes a ClientInput with
\* the index it started with while the server registered it as player 1 and
\* the handshake lies unread
C30_InputWithoutIndex ==
    /\ csnd[1] = "write"
    /\ player_index[1] = 1 /\ lpi[1] = 0
    /\ hs[1] # <<>>

\* C29: the frames the receiver has decoded are the first messages the
\* sender wrote, each on its own boundaries and in the order written, and
\* every byte written is either still to be read, in the running
\* recv_update, or part of a decoded frame.
C29_FramesAreTheMessages ==
    /\ \A i \in DOMAIN decoded : decoded[i] = bincode_serialize(i)
    /\ Len(stream) + Len(rbuf) + FrameLen * Len(decoded) = FrameLen * written

\* two messages arrived coalesced in one read: the first was decoded, the
\* second was dropped with the reader, the third was decoded next
C29_CoalescedLost ==
    /\ written = 3
    /\ decoded = <<bincode_serialize(1), bincode_serialize(3)>>
    /\ stream = <<>> /\ rbuf = <<>>
\* a message split across reads with a timeout in between: the next frame
\* is decoded across the boundary of two messages
C29_SplitMisaligned ==
    /\ written = 2
    /\ decoded = <<<<byte(1, 2), byte(2, 1)>>>>
    /\ Len(stream) = 1

\* C31: no tick of a process started as a client runs the server's step:
\* at every tick the process does not take itself for the server, and the
\* tick adds no rock and no shot and leaves the score alone.
C31_ClientNeverSimulates ==
    [][(role[1] = "client" /\ ticks_done' = ticks_done + 1) =>
          /\ ~is_server(world)
          /\ Len(world'.rocks) = Len(world.rocks)
          /\ Len(world'.shots) = Len(world.shots)
          /\ world'.score = world.score]_vars

\* the connection failed: the process still takes itself for the server and
\* a tick of it has spawned a rock
C31_SimulatesAfterFailedConnect ==
    /\ role[1] = "client" /\ cmain[1] = "failed"
    /\ is_server(world)
    /\ ticks_done >= 1
    /\ Len(world.rocks) > Len(passin.rocks)
\* a tick of the process, before its connection is there, has fired shots
C31_SimulatesBeforeConnect ==
    /\ role[1] = "client" /\ cmain[1] = "connect_snap"
    /\ ticks_done >= 1
    /\ Len(world.shots) > Len(passin.shots)

\* C32: with the snapshots of one session applied in the order sent, no
\* step, tick or application, lowers the client's simulation time.
C32_TimeNeverDecreases ==
    [][cstate'.curr_time >= cstate.curr_time]_vars

\* the second snapshot of the session, sent one server tick after the
\* first, was applied after the client had ticked more than once in
\* between: the client's time went back
C32_TimeWentBack ==
    /\ napplied = 2
    /\ cstate.curr_time = snap.server_time
    /\ pre.curr_time > cstate.curr_time
    /\ sstate.curr_time >= snap.server_time

\* C33: right after a snapshot is applied, for every player of its roster
\* other than the local one, the client's curr_time - last_shot_at is the
\* server's: server_time minus the last_shot_at the snapshot carries.
C33_RemoteElapsedAsOnServer ==
    napplied >= 1 =>
        \A i \in DOMAIN snap.players :
            pre.local_player_index # i - 1 =>
                once.curr_time - once.players[i].last_shot_at
                    = snap.server_time - snap.players[i].last_shot_at

\* the client's clock was 4 units behind the server's: a player that fired
\* 24 units ago on the server fired 20 units ago on the client (all values
\* small, nothing rounded)
C33_RemoteElapsedOffByTheShift ==
    /\ napplied = 1
    /\ pre.curr_time = 40 /\ snap.server_time = 44
    /\ Len(snap.players) >= 1 /\ pre.local_player_index # 0
    /\ snap.players[1].last_shot_at = 20
    /\ once.curr_time - once.players[1].last_shot_at = 20

\* C34: the index through which a server receive thread writes is at least 1
\* and below the player count, so the write leaves the host's player (index
\* 0) as it was; the host's player changes only in a step of the tick.
C34_HostPlayerOnlyByTick ==
    [][/\ \A p \in Peers :
             (rcv[p] = "applying" /\ rcv'[p] = "read") =>
                 /\ player_index[p] >= 1
                 /\ player_index[p] < Len(players)
                 /\ players'[1] = players[1]
       /\ players'[1] # players[1] => (lock = Sim /\ lock' = Free)]_vars

\* a receive thread has written a set input through its index while the
\* host's player holds the default input
C34_Witness ==
    \E p \in Peers :
        /\ rcv[p] = "read"
        /\ player_index[p] >= 1
        /\ player_index[p] < Len(players)
        /\ players[player_index[p] + 1].input = 1
        /\ players[1].input = 0

\* C35: every snapshot the server builds is built between two complete
\* ticks: it is the image of a world on which no tick is under way, and it
\* holds no rock or shot marked dead and not yet swept.
C35_SnapshotBetweenTicks ==
    [][snap' # snap =>
          /\ tick = "idle"
          /\ lock = Free
          /\ snap' = make_from_state(world)
          /\ \A i \in DOMAIN snap'.actors : snap'.actors[i].life > 0]_vars

\* a snapshot built after a tick in which a rock or a shot was marked dead
\* and swept
C35_Witness ==
    /\ ticks_done >= 1
    /\ tick = "idle"
    /\ snap = make_from_state(world)
    /\ \/ \E i \in DOMAIN passin.rocks : passin.rocks[i].life <= 0
       \/ \E i \in DOMAIN passin.shots : passin.shots[i].life <= 0
    /\ Len(snap.actors) < Len(passin.rocks) + Len(passin.shots)

\* C36: on the server a player fires in a tick only if its fire input is
\* set and PLAYER_SHOT_TIME has passed since its last_shot_at; a firing
\* appends exactly three shots at the player's position and sets
\* last_shot_at to the current time; between two firings of one player at
\* least PLAYER_SHOT_TIME elapses.
C36_FireCooldown ==
    [][ticks_done' = ticks_done + 1 =>
          \A i \in DOMAIN world.players :
              LET fired == shots_just_fired(world', i)
                  input == IF i = 1 THEN world.local_input ELSE world.players[i].input
                  p == world.players[i]
              IN  /\ fired # {} =>
                        /\ input.fire
                        /\ world'.curr_time - p.last_shot_at >= PLAYER_SHOT_TIME
                        /\ Cardinality(fired) = 3
                        /\ \A k \in fired :
                              /\ k > Len(world.shots)
                              /\ world'.shots[k].pos[2] =
                                     p.actor.pos[2] + MAX_PHYSICS_VEL * seconds
                        /\ world'.players[i].last_shot_at = world'.curr_time
                        /\ pre[i] >= 0 =>
                               world'.curr_time - pre[i] >= PLAYER_SHOT_TIME
                  /\ fired = {} => world'.players[i].last_shot_at = p.last_shot_at]_vars

\* a player has fired twice, a tick without firing in between
C36_Witness ==
    /\ ticks_done = 3
    /\ pre[1] = 58
    /\ world.players[1].last_shot_at = 58
    /\ passin.players[1].last_shot_at = 29
    /\ Len(world.shots) = 6

\* both players have fired in one tick
C36_WitnessBoth ==
    /\ Len(world.players) = 2
    /\ ticks_done = 1
    /\ pre = <<29, 29>>
    /\ Len(world.shots) = 6

\* the rocks the collision pass has destroyed: alive when the pass began,
\* marked dead when it ended
DestroyedByPass == {i \in DOMAIN passin.rocks : passin.rocks[i].life > 0 /\ world.rocks[i].life = 0}

\* C37: a collision pass that does not restart the game adds to the score
\* exactly the number of rocks it destroys by a shot hit: an entity already
\* marked dead registers no further hit.
C37_ScoreCountsRocksDestroyed ==
    (tick = "collided" /\ ~RockHitsPlayer(passin)) =>
        world.score = passin.score + Cardinality(DestroyedByPass)

\* one rock met by two alive shots: the pass has destroyed one rock and
\* added 2, the second point for a rock the first shot had marked dead
C37_DeadRockScoresAgain ==
    /\ tick = "collided"
    /\ ~RockHitsPlayer(passin)
    /\ Len(passin.rocks) = 1 /\ Len(passin.shots) = 2
    /\ passin.rocks[1].life > 0
    /\ \A j \in 1..2 : passin.shots[j].life > 0 /\ RockHitsShot(passin, 1, j)
    /\ DestroyedByPass = {1}
    /\ world.score = passin.score + 2

\* the messages built so far that carry the k-th shot the client made, and
\* the places of local_shots_made that hold it
InputsCarrying(k) ==
    {<<i, j>> \in (DOMAIN once) \X (1..(MaxMade + 1)) :
        /\ j \in DOMAIN once[i].shots_made
        /\ once[i].shots_made[j].serial_interm.pos = MadeShot(k).pos}
StillLocal(k) ==
    {j \in DOMAIN cstate.local_shots_made : cstate.local_shots_made[j] = MadeShot(k)}

\* C38: over any sequence of builds, each shot the client has made is
\* either still in local_shots_made, once, and in no ClientInput, or in
\* exactly one ClientInput, once, and no longer in local_shots_made.
C38_EachShotInExactlyOneInput ==
    \A k \in 1..napplied :
        Cardinality(InputsCarrying(k)) + Cardinality(StillLocal(k)) = 1

\* three builds: the first carries the first shot, the second is empty, the
\* third carries the second shot, and local_shots_made is empty
C38_Witness ==
    /\ napplied = 2
    /\ Len(once) = 3
    /\ InputsCarrying(1) = {<<1, 1>>}
    /\ once[2].shots_made = <<>>
    /\ InputsCarrying(2) = {<<3, 1>>}
    /\ cstate.local_shots_made = <<>>

\* one build carries both shots
C38_WitnessBoth ==
    /\ napplied = 2
    /\ InputsCarrying(1) = {<<1, 1>>}
    /\ InputsCarrying(2) = {<<1, 2>>}

====
